---- MODULE Spec2Model ----
(***************************************************************************)
(* liscribe: the dual-source capture session (recorder.py) with the        *)
(* platform calls it makes (platform_setup.py).                            *)
(*                                                                         *)
(* The session's control operations are serialized by their caller and    *)
(* each runs to completion as one step; the two capture callbacks run on   *)
(* the audio subsystem's thread and fire between control operations        *)
(* whenever their stream is open.  A stream that has been stopped delivers *)
(* no further callback, so a callback that fires while an operation is     *)
(* tearing a stream down is a callback that fired before the operation.    *)
(*                                                                         *)
(* After the recording, the transcription pipelines (cli.py,               *)
(* transcribe_worker.py, output.py) and the merge of the two sources'      *)
(* transcriptions (transcriber.py) have specifications of their own.       *)
(*                                                                         *)
(* Optional values (Python's None) are <<>> and <<x>>.  Strings that the   *)
(* code searches or parses are tuples of one-character strings.            *)
(***************************************************************************)
EXTENDS Integers, Sequences, FiniteSets, TLC

\* ------------------------------------------------------------------ bounds

\* Blocks the audio subsystem delivers in one behaviour (both sources).
MaxBlocks == 3
\* Frames in one delivered block (the streams are opened with blocksize=1024).
BlockFrames == 2
\* Blocks delivered in a behaviour that meets platform faults.
MaxFaultyBlocks == 2
\* Models one transcription pipeline is run with.
MaxModels == 2
\* Control operations the caller still invokes on a session that has ended
\* (its start failed, or it was stopped).
MaxLateOps == 1
\* Segments of one transcription that is merged with another.
MaxSegments == 2
\* Notes added to a collection before it is cleared, and the seconds the
\* clock moves on while notes are taken.
MaxNotes == 3
MaxTime == 3
\* Times at most the screen wraps the speaker callback.
MaxWraps == 3

\* --------------------------------------------------------------- constants

Int16Max == 32767
Int16Min == -32768

None == <<>>
Some(x) == <<x>>

\* Float samples in units of one half: -3 is -1.5 (clipped), 1 is 0.5.
Levels == {-3, 1}

\* cfg.get("speaker_device", "Multi-Output Device")
speaker_device_name == "Multi-Output Device"
\* cfg.get("blackhole_device", "BlackHole 2ch"), abbreviated
blackhole_name == <<"B", "H", "2">>

\* The system output device that is current when the session is constructed.
default_output == "Built-in Output"

\* sd.query_devices(): the device list on a machine with and without the
\* loopback driver.  "in" is max_input_channels.
DevicesWithBlackHole ==
    << [name |-> <<"M", "i", "c">>, in |-> 1],
       [name |-> <<"B", "H", "2">>, in |-> 2],
       [name |-> <<"O", "u", "t">>, in |-> 0] >>
DevicesWithoutBlackHole ==
    << [name |-> <<"M", "i", "c">>, in |-> 1],
       [name |-> <<"O", "u", "t">>, in |-> 0] >>
DeviceTables == {DevicesWithBlackHole, DevicesWithoutBlackHole}

\* The mic argument of a session under platform faults: an index, and a name
\* that matches no device.
MicArgs == {Some(<<"0">>), Some(<<"z">>)}
\* The mic argument where the selectors are told apart: the default, the
\* indices of the device lists and one beyond them, a name that matches a
\* device and one that matches none.
Selectors ==
    {None, Some(<<"0">>), Some(<<"1">>), Some(<<"2">>), Some(<<"3">>),
     Some(<<"M">>), Some(<<"z">>)}

VARIABLES
    \* RecordingSession fields
    speaker, mic_arg, device_idx, blackhole_idx,
    mic_chunks, speaker_chunks, mic_stream, speaker_stream,
    original_output, speaker_enabled_ever,
    mic_first_adc_time, speaker_first_adc_time,
    \* the platform: system output routing, the device list, the save
    \* directory, and what the platform and the audio subsystem may do in
    \* this behaviour
    output_device, devices, save_dir, env,
    \* history: lifecycle, the last operation and its result, every block
    \* delivered to each source, the speaker argument of the constructor,
    \* the routing found at construction, whether the session switched the
    \* routing, whether the platform refused a restore, whether an enable
    \* succeeded, the control operations invoked after the session ended
    phase, lastOp, result, mic_log, speaker_log, requested,
    initial_output, switched_ever, restore_refused, enabled_ok_ever, late_ops,
    \* and the ADC time each delivered block came with, in order of arrival
    adc_log,
    \* the threads, when their steps are told apart: who holds self._lock,
    \* where each thread is, and the locals they carry between steps
    _lock, pc, locals,
    \* after the recording: the audio files and the transcripts on disk, and
    \* the transcription pipeline that works on them
    \* (session_json is what the descriptor file holds)
    audio_files, transcripts, job, session_json,
    \* merging two transcriptions: the arguments of the call, and what the
    \* call returned
    call, merged,
    \* the recording screen (RecordingScreen) around the session: its speaker
    \* flag, the callbacks it has wrapped, and what its last action and the
    \* last block's callback did
    screen,
    \* NoteCollection fields, the clock (time.time()), and the texts handed
    \* to add since the collection was made or cleared, and whether it was
    \* cleared
    _notes, _start_time, now, added, cleared

session == <<speaker, mic_arg, device_idx, blackhole_idx, mic_chunks,
             speaker_chunks, mic_stream, speaker_stream, original_output,
             speaker_enabled_ever, mic_first_adc_time, speaker_first_adc_time>>
platform == <<output_device, devices, save_dir, env>>
history == <<phase, lastOp, result, mic_log, speaker_log, requested,
             initial_output, switched_ever, restore_refused, enabled_ok_ever,
             late_ops, adc_log>>
threads == <<_lock, pc, locals>>
pipeline == <<audio_files, transcripts, job, session_json>>
merging == <<call, merged>>
noting == <<_notes, _start_time, now, added, cleared>>
vars == <<session, platform, history, threads, pipeline, merging, screen,
          noting>>

\* ----------------------------------------------------------- pure helpers

RECURSIVE Lower(_)
LowerChar(c) ==
    CASE c = "M" -> "m" [] c = "B" -> "b" [] c = "H" -> "h" [] c = "O" -> "o"
      [] OTHER -> c
Lower(s) == IF s = <<>> THEN <<>> ELSE <<LowerChar(Head(s))>> \o Lower(Tail(s))

\* Python's `a in b` on strings
Contains(hay, needle) ==
    \E i \in 0..(Len(hay) - Len(needle)) :
        SubSeq(hay, i + 1, i + Len(needle)) = needle

Digits == {"0", "1", "2", "3", "4", "5", "6", "7", "8", "9"}
DigitValue(c) ==
    CASE c = "0" -> 0 [] c = "1" -> 1 [] c = "2" -> 2 [] c = "3" -> 3
      [] c = "4" -> 4 [] c = "5" -> 5 [] c = "6" -> 6 [] c = "7" -> 7
      [] c = "8" -> 8 [] OTHER -> 9
\* int(mic) succeeds
IsInt(s) == Len(s) > 0 /\ \A i \in 1..Len(s) : s[i] \in Digits
RECURSIVE IntOf(_)
IntOf(s) == IF s = <<>> THEN 0
            ELSE 10 * IntOf(SubSeq(s, 1, Len(s) - 1)) + DigitValue(s[Len(s)])

\* The indices (0-based, as sounddevice numbers them) of the input devices.
list_input_devices(devs) ==
    { i \in 0..(Len(devs) - 1) : devs[i + 1].in > 0 }

Min(S) == CHOOSE x \in S : \A y \in S : x <= y

\* First input device whose lower-cased name contains the lower-cased hint.
FirstMatch(devs, hint) ==
    LET hits == { i \in list_input_devices(devs) :
                      Contains(Lower(devs[i + 1].name), Lower(hint)) }
    IN  IF hits = {} THEN None ELSE Some(Min(hits))

_find_blackhole_device(devs, name_hint) == FirstMatch(devs, name_hint)

\* [ok, idx]: ok = FALSE is the ValueError
resolve_device(devs, mic) ==
    IF mic = None THEN [ok |-> TRUE, idx |-> None]
    ELSE LET s == mic[1]
             byIndex == IsInt(s) /\ IntOf(s) \in list_input_devices(devs)
             byName == FirstMatch(devs, s)
         IN  IF byIndex THEN [ok |-> TRUE, idx |-> Some(IntOf(s))]
             ELSE IF byName # None THEN [ok |-> TRUE, idx |-> byName]
             ELSE [ok |-> FALSE, idx |-> None]

\* A delivered block: BlockFrames samples of level lvl, each tagged with the
\* block's arrival number b and the device it was captured from (the tags
\* are not data: they tell the blocks apart).
Block(id, lvl, dev) ==
    [i \in 1..BlockFrames |-> [b |-> id, v |-> lvl, dev |-> dev]]

\* np.concatenate(chunks, axis=0)
RECURSIVE concatenate(_)
concatenate(chunks) ==
    IF chunks = <<>> THEN <<>> ELSE Head(chunks) \o concatenate(Tail(chunks))

\* np.clip(x * 32767, -32768, 32767).astype(np.int16), x in halves:
\* the cast drops the fraction (rounds toward zero).
_to_int16_sample(h) ==
    LET twice == h * Int16Max
    IN  IF twice > 2 * Int16Max THEN Int16Max
        ELSE IF twice < 2 * Int16Min THEN Int16Min
        ELSE IF twice >= 0 THEN twice \div 2 ELSE -((-twice) \div 2)
_to_int16(audio) == [i \in 1..Len(audio) |-> _to_int16_sample(audio[i].v)]

\* np.pad(audio, (0, n)): n zero samples after the end
ZeroSample == [b |-> 0, v |-> 0, dev |-> None]
pad(audio, n) == audio \o [i \in 1..n |-> ZeroSample]

\* The two waveforms as written in a dual-source session.
aligned_mic(mic_audio, speaker_audio) ==
    IF Len(speaker_audio) > Len(mic_audio)
    THEN pad(mic_audio, Len(speaker_audio) - Len(mic_audio))
    ELSE mic_audio
\* Variant: a longer speaker waveform is cut to the mic's length.
aligned_speaker_cut(mic_audio, speaker_audio) ==
    IF Len(speaker_audio) < Len(mic_audio)
    THEN pad(speaker_audio, Len(mic_audio) - Len(speaker_audio))
    ELSE SubSeq(speaker_audio, 1, Len(mic_audio))
aligned_speaker(mic_audio, speaker_audio) ==
    IF Len(speaker_audio) < Len(mic_audio)
    THEN pad(speaker_audio, Len(mic_audio) - Len(speaker_audio))
    ELSE speaker_audio

\* ADC times are in units of 1e-5 s; round(x, 4) keeps multiples of 10.
round4(x) ==
    IF x >= 0 THEN ((x + 5) \div 10) * 10 ELSE -(((-x) + 5) \div 10) * 10
offset_correction(mic_t, spk_t) ==
    IF mic_t # None /\ spk_t # None THEN round4(spk_t[1] - mic_t[1]) ELSE 0

\* Time of the next block's arrival, in the units above.
Delivered == Len(mic_log) + Len(speaker_log)
AdcTick == 3
AdcNow == (Delivered + 1) * AdcTick

\* ------------------------------------------------------------ the platform

\* What the environment of one behaviour may do.  A behaviour either meets
\* every outcome of the platform calls (the routing query, the routing
\* switch, a restore, opening a stream, a block with or without an ADC
\* time) and a caller that goes on calling a session that has ended, with
\* few blocks of one level; or it meets more blocks, of every level, on a
\* platform whose routing calls succeed.
\*   levels   sample levels of a delivered block
\*   timed    whether a block's time_info carries an input ADC time
\*   status   whether a block comes with an overflow/underflow status
\*   query, switch, restore, open   whether the call succeeds
\*   blocks   blocks delivered at most
\*   late     control operations invoked at most on a session that has ended
\*   mic_args, tables   what the session is constructed on
FaultyPlatform ==
    [levels |-> {1}, timed |-> BOOLEAN, status |-> BOOLEAN, query |-> BOOLEAN, switch |-> BOOLEAN,
     restore |-> BOOLEAN, open |-> BOOLEAN, blocks |-> MaxFaultyBlocks,
     late |-> MaxLateOps, mic_args |-> MicArgs, tables |-> DeviceTables]
VariedAudio ==
    [levels |-> Levels, timed |-> {TRUE}, status |-> {FALSE}, query |-> {TRUE}, switch |-> {TRUE},
     restore |-> {TRUE}, open |-> {TRUE}, blocks |-> MaxBlocks,
     late |-> 0, mic_args |-> {None}, tables |-> {DevicesWithBlackHole}]
\* Any selector, on a platform where every call succeeds.
Selecting ==
    [levels |-> {1}, timed |-> {TRUE}, status |-> {FALSE}, query |-> {TRUE},
     switch |-> {TRUE}, restore |-> {TRUE}, open |-> {TRUE}, blocks |-> 1,
     late |-> 0, mic_args |-> Selectors, tables |-> DeviceTables]
Environments == {FaultyPlatform, VariedAudio, Selecting}

\* The outcomes of a call that is made only when `made` holds.
Only(made, outcomes) ==
    IF made THEN outcomes ELSE {CHOOSE x \in outcomes : TRUE}

\* get_current_output_device(): the current device, or None when the query
\* fails (utility missing, non-zero exit, timeout, empty answer).
QueryOutcomes == {IF ok THEN Some(output_device) ELSE None : ok \in env.query}
\* time_info's input ADC time, when it carries one
AdcOutcomes == {IF t THEN Some(AdcNow) ELSE None : t \in env.timed}

\* set_output_device(name) with outcome ok, from routing rt
set_output_device(rt, name, ok) == IF ok THEN name ELSE rt

\* _restore_audio_output: the routing it leaves, from routing rt with
\* remembered original orig; the result of set_output_device is not read.
restored_output(orig, rt, ok) ==
    IF orig # None THEN set_output_device(rt, orig[1], ok) ELSE rt

\* stream.stop(); stream.close() on a stream reference
closed(stream) == IF stream = "None" THEN "None" ELSE "closed"


\* ------------------------------------------------------------------- Init

\* RecordingSession.__init__(folder, speaker, mic)
\* The PortAudio callback threads of the two streams, and the thread that
\* calls the control operations.
Threads == {"mic", "speaker", "main"}

\* No thread is inside an operation.
ThreadsIdle ==
    /\ _lock = "free"
    /\ pc = [t \in Threads |-> "idle"]
    /\ locals = [mic |-> None, speaker |-> None,
                 mic_audio |-> <<>>, speaker_audio |-> <<>>, on_disk |-> <<>>]

\* RecordingSession.__init__, in one of the given environments
Constructed(envs) ==
    /\ env \in envs
    /\ speaker \in BOOLEAN
    /\ mic_arg \in env.mic_args
    /\ device_idx = None
    /\ blackhole_idx = None
    /\ mic_chunks = <<>>
    /\ speaker_chunks = <<>>
    /\ mic_stream = "None"
    /\ speaker_stream = "None"
    /\ original_output = None
    /\ speaker_enabled_ever = speaker
    /\ mic_first_adc_time = None
    /\ speaker_first_adc_time = None
    /\ output_device = default_output
    /\ devices \in env.tables
    /\ save_dir = <<>>
    /\ phase = "new"
    /\ lastOp = "__init__"
    /\ result = "None"
    /\ mic_log = <<>>
    /\ speaker_log = <<>>
    /\ adc_log = <<>>
    /\ initial_output = output_device
    /\ requested = speaker
    /\ switched_ever = FALSE
    /\ restore_refused = FALSE
    /\ enabled_ok_ever = FALSE
    /\ late_ops = 0

\* Audio files a stop may leave for transcription (and the mic file of a
\* session directory under a name in capitals), and the models a pipeline may
\* be asked to transcribe with.
AudioPaths == {"wav", "mic.wav", "MIC.WAV", "speaker.wav", "session.json"}
Models == 1..MaxModels

\* A JSON value of a descriptor: a number, or null.
JsonNumber(x) == [type |-> "number", value |-> x]
JsonNull == [type |-> "null", value |-> 0]

\* json.dumps(metadata): a text that json.loads parses back to metadata
dumps(metadata) == [json |-> TRUE, meta |-> metadata]
\* A descriptor file that holds no JSON, as an absent one reads.
NotJson == [json |-> FALSE, meta |-> <<>>]

\* No recording has been handed to a pipeline.
NoPipeline ==
    /\ audio_files = [a \in AudioPaths |-> "missing"]
    /\ transcripts = [m \in Models |-> "missing"]
    /\ job = [pipeline |-> "None", audio_path |-> "wav", dual_session |-> None,
              dual |-> FALSE, models |-> 0, i |-> 0,
              at |-> "idle", results |-> <<>>, removed |-> {}, refused |-> {},
              result_file |-> "None"]
    /\ session_json = NotJson

\* a real number n/d, d > 0
Frac(n, d) == [n |-> n, d |-> d]

\* No merge is asked for.
NotCalled ==
    [op |-> "None", segments |-> <<>>, kept |-> <<>>, text |-> <<>>,
     mic_duration |-> 0, speaker_duration |-> 0, duration |-> 0]
NoMerge ==
    /\ call = [mic_segments |-> <<>>, speaker_segments |-> <<>>,
               speaker_offset_seconds |-> 0, group_consecutive |-> FALSE,
               suppress_mic_bleed_duplicates |-> FALSE,
               bleed_similarity_threshold |-> Frac(62, 100)]
    /\ merged = NotCalled

\* A capture callback, as what a call of it does with the block, in order.
\* RecordingSession's own callback appends the block to the source's buffer.
session_callback == <<"append">>

\* RecordingScreen(folder, speaker, mic) before it is mounted: the callbacks
\* are the session's own and no stream holds one.
\*   _mic_callback, _speaker_callback   the session's attributes
\*   mic_bound, speaker_bound   the callback the source's stream was opened
\*                              with
\*   effects   what the callback of the last block did
\*   action, called   the last speaker action of the screen and the session
\*                    methods it called
RecordingScreen(spk) ==
    [speaker |-> spk, _mic_callback |-> session_callback,
     _speaker_callback |-> session_callback,
     mic_bound |-> session_callback, speaker_bound |-> session_callback,
     effects |-> <<>>, action |-> "None", called |-> <<>>]

\* The session has no screen around it.
NoScreen == screen = RecordingScreen(FALSE)

\* NoteCollection(): no notes, _start_time = 0.0
NoNotes ==
    /\ _notes = <<>>
    /\ _start_time = 0
    /\ now = 1
    /\ added = <<>>
    /\ cleared = FALSE

Init ==
    /\ Constructed(Environments)
    /\ ThreadsIdle /\ NoPipeline /\ NoMerge /\ NoScreen /\ NoNotes

\* -------------------------------------------------------- capture callbacks

\* self._mic_chunks.append(indata.copy())
append_chunk(chunks, indata) == Append(chunks, indata)

\* if self._x_first_adc_time is None and adc_time is not None: ... = adc_time
\* Variant: every ADC time replaces the one kept.
first_adc_time_latest(current, adc_time) ==
    IF adc_time # None THEN adc_time ELSE current
\* Variant: the block's ADC time is kept, also when it has none.
first_adc_time_unguarded(current, adc_time) == adc_time
first_adc_time(current, adc_time) ==
    IF current = None /\ adc_time # None THEN adc_time ELSE current

\* time_info as the callback of one source received it
timed(source, adc_time) == [source |-> source, adc_time |-> adc_time]

\* if status: logger.warning(...)
logged(status) == IF status THEN "StatusLogged" ELSE "None"

\* Variant: a block that comes with a status is dropped.
_mic_callback_dropping ==
    /\ mic_stream = "open"
    /\ Delivered < env.blocks
    /\ \E lvl \in env.levels, adc_time \in AdcOutcomes, status \in env.status :
        LET indata == Block(Delivered + 1, lvl, device_idx) IN
        /\ mic_first_adc_time' = first_adc_time(mic_first_adc_time, adc_time)
        /\ mic_chunks' = IF status THEN mic_chunks
                         ELSE append_chunk(mic_chunks, indata)
        /\ mic_log' = Append(mic_log, indata)
        /\ adc_log' = Append(adc_log, timed("mic", adc_time))
        /\ result' = logged(status)
    /\ lastOp' = "_mic_callback"
    /\ UNCHANGED <<speaker, mic_arg, device_idx, blackhole_idx, speaker_chunks,
                   mic_stream, speaker_stream, original_output,
                   speaker_enabled_ever, speaker_first_adc_time>>
    /\ UNCHANGED <<platform, phase, speaker_log, requested, initial_output,
                   switched_ever, restore_refused, enabled_ok_ever, late_ops>>
    /\ UNCHANGED <<threads, pipeline, merging, screen, noting>>

\* The subsystem delivers a block to the mic callback: any level, with or
\* without an ADC time, with or without an overflow status (only logged).
_mic_callback ==
    /\ mic_stream = "open"
    /\ Delivered < env.blocks
    /\ \E lvl \in env.levels, adc_time \in AdcOutcomes, status \in env.status :
        LET indata == Block(Delivered + 1, lvl, device_idx) IN
        /\ mic_first_adc_time' = first_adc_time(mic_first_adc_time, adc_time)
        /\ mic_chunks' = append_chunk(mic_chunks, indata)
        /\ mic_log' = Append(mic_log, indata)
        /\ adc_log' = Append(adc_log, timed("mic", adc_time))
        /\ result' = logged(status)
    /\ lastOp' = "_mic_callback"
    /\ UNCHANGED <<speaker, mic_arg, device_idx, blackhole_idx, speaker_chunks,
                   mic_stream, speaker_stream, original_output,
                   speaker_enabled_ever, speaker_first_adc_time>>
    /\ UNCHANGED <<platform, phase, speaker_log, requested, initial_output,
                   switched_ever, restore_refused, enabled_ok_ever, late_ops>>
    /\ UNCHANGED <<threads, pipeline, merging, screen, noting>>

_speaker_callback ==
    /\ speaker_stream = "open"
    /\ Delivered < env.blocks
    /\ \E lvl \in env.levels, adc_time \in AdcOutcomes, status \in env.status :
        LET indata == Block(Delivered + 1, lvl, blackhole_idx) IN
        /\ speaker_first_adc_time' =
               first_adc_time(speaker_first_adc_time, adc_time)
        /\ speaker_chunks' = append_chunk(speaker_chunks, indata)
        /\ speaker_log' = Append(speaker_log, indata)
        /\ adc_log' = Append(adc_log, timed("speaker", adc_time))
        /\ result' = logged(status)
    /\ lastOp' = "_speaker_callback"
    /\ UNCHANGED <<speaker, mic_arg, device_idx, blackhole_idx, mic_chunks,
                   mic_stream, speaker_stream, original_output,
                   speaker_enabled_ever, mic_first_adc_time>>
    /\ UNCHANGED <<platform, phase, mic_log, requested, initial_output,
                   switched_ever, restore_refused, enabled_ok_ever, late_ops>>
    /\ UNCHANGED <<threads, pipeline, merging, screen, noting>>

\* ------------------------------------------------------- control operations

\* The caller invokes a control operation: on a recording session, or on one
\* that has ended (RecordingSession keeps no lifecycle state and its methods
\* test none).
Callable ==
    \/ phase = "recording"
    \/ phase \in {"failed", "stopped"} /\ late_ops < env.late
Counted == IF phase = "recording" THEN late_ops ELSE late_ops + 1

\* _restore_audio_output calls set_output_device
restore_sets_output(orig) == orig # None

\* Results that leave the operation as an exception instead of a return
\* value: switch_mic does not catch the PortAudioError of _open_mic_stream.
Exceptions == {"PortAudioError"}

\* _restore_audio_output with a remembered original whose set_output_device
\* call fails: the platform refused the restore.
refused(orig, ok) == orig # None /\ ~ok

\* What a start leaves behind, as a record of the fields it assigns.
\*   q        get_current_output_device()'s answer
\*   set_ok   set_output_device(speaker_device_name) succeeded
\*   mic_ok, spk_ok   the stream opened (no PortAudioError)
\*   restore_ok       the set_output_device call of a restore succeeded
start_untouched ==
    [device_idx |-> device_idx, blackhole_idx |-> blackhole_idx,
     original_output |-> original_output, output_device |-> output_device,
     mic_stream |-> mic_stream, speaker_stream |-> speaker_stream,
     phase |-> "failed", result |-> "None", switched |-> FALSE,
     refused |-> FALSE]

\* resolve_device raised ValueError: report and return
start_unresolved(o) == [o EXCEPT !.result = "ValueError"]

\* the loopback device was not found: report and return
start_no_blackhole(o, idx) ==
    [o EXCEPT !.device_idx = idx, !.blackhole_idx = None,
              !.result = "BlackHoleNotFound"]

\* Variant: the mic stream is opened before the speaker setup.
start_not_switched_mic_open(o, idx, bh, q) ==
    [o EXCEPT !.device_idx = idx, !.blackhole_idx = bh, !.original_output = q,
              !.mic_stream = "open",
              !.result = "SwitchFailed"]

\* the routing switch failed: report and return
start_not_switched(o, idx, bh, q) ==
    [o EXCEPT !.device_idx = idx, !.blackhole_idx = bh, !.original_output = q,
              !.output_device = set_output_device(o.output_device,
                                                  speaker_device_name, FALSE),
              !.result = "SwitchFailed"]

\* resolution and the speaker setup went through
start_routed(o, idx, bh, q) ==
    IF speaker
    THEN [o EXCEPT !.device_idx = idx, !.blackhole_idx = bh,
                   !.original_output = q,
                   !.output_device = set_output_device(o.output_device,
                                                       speaker_device_name, TRUE),
                   !.switched = TRUE]
    ELSE [o EXCEPT !.device_idx = idx]

\* except sd.PortAudioError: self._restore_audio_output(); return None
start_stream_error(o, restore_ok) ==
    [o EXCEPT !.output_device =
                  restored_output(o.original_output, o.output_device, restore_ok),
              !.original_output = None,
              !.refused = refused(o.original_output, restore_ok),
              !.result = "StreamError"]

start_outcome(q, set_ok, mic_ok, spk_ok, restore_ok) ==
    LET r == resolve_device(devices, mic_arg)
        bh == _find_blackhole_device(devices, blackhole_name)
        routed == start_routed(start_untouched, r.idx, bh, q)
    IN  IF ~r.ok THEN start_unresolved(start_untouched)
        ELSE IF speaker /\ bh = None THEN
            start_no_blackhole(start_untouched, r.idx)
        ELSE IF speaker /\ ~set_ok THEN
            start_not_switched(start_untouched, r.idx, bh, q)
        ELSE IF ~mic_ok THEN start_stream_error(routed, restore_ok)
        ELSE IF speaker /\ ~spk_ok THEN
            start_stream_error([routed EXCEPT !.mic_stream = "open"], restore_ok)
        ELSE [routed EXCEPT
                 !.mic_stream = "open",
                 !.speaker_stream = IF speaker THEN "open" ELSE "None",
                 !.phase = "recording",
                 !.result = "Recording"]

\* The steps of a start on the session, whoever runs them.
start_steps(op) ==
    /\ phase = "new"
    /\ \E q \in Only(speaker, QueryOutcomes),
          set_ok \in Only(speaker, env.switch), mic_ok \in env.open :
       \E spk_ok \in Only(speaker /\ mic_ok, env.open) :
       \E restore_ok \in Only(speaker /\ q # None /\ ~(mic_ok /\ spk_ok),
                              env.restore) :
        LET o == start_outcome(q, set_ok, mic_ok, spk_ok, restore_ok) IN
        /\ device_idx' = o.device_idx
        /\ blackhole_idx' = o.blackhole_idx
        /\ original_output' = o.original_output
        /\ output_device' = o.output_device
        /\ mic_stream' = o.mic_stream
        /\ speaker_stream' = o.speaker_stream
        /\ phase' = o.phase
        /\ result' = o.result
        /\ switched_ever' = (switched_ever \/ o.switched)
        /\ restore_refused' = (restore_refused \/ o.refused)
    /\ lastOp' = op
    /\ UNCHANGED <<speaker, mic_arg, mic_chunks, speaker_chunks,
                   speaker_enabled_ever, mic_first_adc_time,
                   speaker_first_adc_time, devices, save_dir, env, mic_log,
                   speaker_log, adc_log, requested, initial_output,
                   enabled_ok_ever,
                   late_ops>>

StartWith(op) ==
    /\ start_steps(op)
    /\ UNCHANGED <<threads, pipeline, merging, screen, noting>>

\* RecordingSession.start (the command-line path), up to the recording loop
start == StartWith("start")

\* RecordingScreen._start_recording (the TUI path): the same steps
_start_recording == StartWith("start")

\* Variant: switching the mic starts a fresh mic buffer.
switch_mic_fresh_buffer(new_device, open_ok) ==
    /\ Callable
    /\ mic_stream' = IF open_ok THEN "open" ELSE closed(mic_stream)
    /\ device_idx' = IF open_ok THEN Some(new_device) ELSE device_idx
    /\ mic_chunks' = <<>>
    /\ lastOp' = "switch_mic"
    /\ result' = IF open_ok THEN "None" ELSE "PortAudioError"
    /\ late_ops' = Counted
    /\ UNCHANGED <<speaker, mic_arg, blackhole_idx, speaker_chunks,
                   speaker_stream, original_output, speaker_enabled_ever,
                   mic_first_adc_time, speaker_first_adc_time>>
    /\ UNCHANGED <<platform, phase, mic_log, speaker_log, adc_log, requested,
                   initial_output, switched_ever, restore_refused,
                   enabled_ok_ever>>
    /\ UNCHANGED <<threads, pipeline, merging, screen, noting>>

\* RecordingSession.switch_mic(new_device); open_ok = FALSE is the
\* PortAudioError of _open_mic_stream, which switch_mic does not catch.
switch_mic(new_device, open_ok) ==
    /\ Callable
    /\ mic_stream' = IF open_ok THEN "open" ELSE closed(mic_stream)
    /\ device_idx' = IF open_ok THEN Some(new_device) ELSE device_idx
    /\ lastOp' = "switch_mic"
    /\ result' = IF open_ok THEN "None" ELSE "PortAudioError"
    /\ late_ops' = Counted
    /\ UNCHANGED <<speaker, mic_arg, blackhole_idx, mic_chunks, speaker_chunks,
                   speaker_stream, original_output, speaker_enabled_ever,
                   mic_first_adc_time, speaker_first_adc_time>>
    /\ UNCHANGED <<platform, phase, mic_log, speaker_log, adc_log, requested,
                   initial_output, switched_ever, restore_refused,
                   enabled_ok_ever>>
    /\ UNCHANGED <<threads, pipeline, merging, screen, noting>>

\* RecordingSession.enable_speaker_capture: the fields it assigns
enable_untouched ==
    [speaker |-> speaker, blackhole_idx |-> blackhole_idx,
     original_output |-> original_output, output_device |-> output_device,
     speaker_stream |-> speaker_stream,
     speaker_enabled_ever |-> speaker_enabled_ever,
     result |-> "None", switched |-> FALSE, refused |-> FALSE]

\* Variant: the session is marked as ever-enabled before the lookup.
enable_no_blackhole_marked(o) ==
    [o EXCEPT !.blackhole_idx = None, !.speaker_enabled_ever = TRUE,
              !.result = "BlackHoleNotFound"]

\* Variant: an enable on an active source queries the routing again and
\* remembers what it finds.
enable_already_requeried(o) ==
    [o EXCEPT !.original_output = Some(o.output_device)]

\* if self.speaker: return None
enable_already(o) == o

\* if self.blackhole_idx is None: return "BlackHole ... not found"
enable_no_blackhole(o) ==
    [o EXCEPT !.blackhole_idx = None, !.result = "BlackHoleNotFound"]

\* if not set_output_device(...): return "Could not switch ..."
enable_not_switched(o, bh, q) ==
    [o EXCEPT !.blackhole_idx = bh, !.original_output = q,
              !.output_device = set_output_device(o.output_device,
                                                  speaker_device_name, FALSE),
              !.result = "SwitchFailed"]

\* Variant: the session is marked active before the stream is opened.
enable_stream_error_flagged(o, bh, q, restore_ok) ==
    [o EXCEPT !.blackhole_idx = bh,
              !.output_device =
                  restored_output(q, set_output_device(o.output_device,
                                         speaker_device_name, TRUE),
                                  restore_ok),
              !.original_output = None,
              !.speaker = TRUE,
              !.switched = TRUE,
              !.refused = refused(q, restore_ok),
              !.result = "StreamError"]

\* except sd.PortAudioError: self._restore_audio_output(); return "Error ..."
enable_stream_error(o, bh, q, restore_ok) ==
    [o EXCEPT !.blackhole_idx = bh,
              !.output_device =
                  restored_output(q, set_output_device(o.output_device,
                                         speaker_device_name, TRUE),
                                  restore_ok),
              !.original_output = None,
              !.switched = TRUE,
              !.refused = refused(q, restore_ok),
              !.result = "StreamError"]

\* the stream opened: self.speaker = True; self._speaker_enabled_ever = True
enable_done(o, bh, q) ==
    [o EXCEPT !.blackhole_idx = bh, !.original_output = q,
              !.output_device = set_output_device(o.output_device,
                                                  speaker_device_name, TRUE),
              !.speaker_stream = "open",
              !.speaker = TRUE,
              !.speaker_enabled_ever = TRUE,
              !.switched = TRUE]

enable_outcome(q, set_ok, open_ok, restore_ok) ==
    LET bh == _find_blackhole_device(devices, blackhole_name)
    IN  IF speaker THEN enable_already(enable_untouched)
        ELSE IF bh = None THEN enable_no_blackhole(enable_untouched)
        ELSE IF ~set_ok THEN enable_not_switched(enable_untouched, bh, q)
        ELSE IF ~open_ok THEN
            enable_stream_error(enable_untouched, bh, q, restore_ok)
        ELSE enable_done(enable_untouched, bh, q)

\* enable_speaker_capture gets as far as the routing calls
enable_switches ==
    ~speaker /\ _find_blackhole_device(devices, blackhole_name) # None

\* A call of session.enable_speaker_capture(), whoever makes it.
enable_speaker_capture_call ==
    /\ Callable
    /\ \E q \in Only(enable_switches, QueryOutcomes),
          set_ok \in Only(enable_switches, env.switch) :
       \E open_ok \in Only(enable_switches /\ set_ok, env.open) :
       \E restore_ok \in Only(enable_switches /\ set_ok /\ ~open_ok /\ q # None,
                              env.restore) :
        LET o == enable_outcome(q, set_ok, open_ok, restore_ok) IN
        /\ speaker' = o.speaker
        /\ blackhole_idx' = o.blackhole_idx
        /\ original_output' = o.original_output
        /\ output_device' = o.output_device
        /\ speaker_stream' = o.speaker_stream
        /\ speaker_enabled_ever' = o.speaker_enabled_ever
        /\ result' = o.result
        /\ switched_ever' = (switched_ever \/ o.switched)
        /\ restore_refused' = (restore_refused \/ o.refused)
        /\ enabled_ok_ever' = (enabled_ok_ever \/ (~speaker /\ o.speaker))
    /\ lastOp' = "enable_speaker_capture"
    /\ late_ops' = Counted
    /\ UNCHANGED <<mic_arg, device_idx, mic_chunks, speaker_chunks, mic_stream,
                   mic_first_adc_time, speaker_first_adc_time, devices,
                   save_dir, env, phase, mic_log, speaker_log, adc_log, requested,
                   initial_output>>

enable_speaker_capture ==
    /\ enable_speaker_capture_call
    /\ UNCHANGED <<threads, pipeline, merging, screen, noting>>

\* Variant: disabling the speaker source drops what it has buffered.
disable_speaker_capture_discarding ==
    /\ Callable
    /\ \E restore_ok \in Only(original_output # None, env.restore) :
        /\ output_device' =
               restored_output(original_output, output_device, restore_ok)
        /\ restore_refused' =
               (restore_refused \/ refused(original_output, restore_ok))
    /\ speaker_stream' = "None"
    /\ original_output' = None
    /\ speaker' = FALSE
    /\ speaker_chunks' = <<>>
    /\ lastOp' = "disable_speaker_capture"
    /\ result' = "None"
    /\ late_ops' = Counted
    /\ UNCHANGED <<mic_arg, device_idx, blackhole_idx, mic_chunks,
                   mic_stream, speaker_enabled_ever,
                   mic_first_adc_time, speaker_first_adc_time, devices,
                   save_dir, env, phase, mic_log, speaker_log, adc_log, requested,
                   initial_output, switched_ever, enabled_ok_ever>>
    /\ UNCHANGED <<threads, pipeline, merging, screen, noting>>

\* RecordingSession.disable_speaker_capture
\* A call of session.disable_speaker_capture(), whoever makes it.
disable_speaker_capture_call ==
    /\ Callable
    /\ \E restore_ok \in Only(original_output # None, env.restore) :
        /\ output_device' =
               restored_output(original_output, output_device, restore_ok)
        /\ restore_refused' =
               (restore_refused \/ refused(original_output, restore_ok))
    /\ speaker_stream' = "None"
    /\ original_output' = None
    /\ speaker' = FALSE
    /\ lastOp' = "disable_speaker_capture"
    /\ result' = "None"
    /\ late_ops' = Counted
    /\ UNCHANGED <<mic_arg, device_idx, blackhole_idx, mic_chunks,
                   speaker_chunks, mic_stream, speaker_enabled_ever,
                   mic_first_adc_time, speaker_first_adc_time, devices,
                   save_dir, env, phase, mic_log, speaker_log, adc_log, requested,
                   initial_output, switched_ever, enabled_ok_ever>>

disable_speaker_capture ==
    /\ disable_speaker_capture_call
    /\ UNCHANGED <<threads, pipeline, merging, screen, noting>>

\* What one stop writes below the save directory.  The timestamp that names
\* it is the number of the save; mic_audio and speaker_audio are the
\* concatenated waveforms before alignment.
single_artifacts(ts, mic_audio, speaker_audio) ==
    [ts |-> ts,
     files |-> {"<ts>.wav"},
     returns |-> "<ts>.wav",
     mode |-> "0600",
     mic_wav |-> _to_int16(mic_audio),
     speaker_wav |-> <<>>,
     offset_correction_seconds |-> 0,
     mic_audio |-> mic_audio,
     speaker_audio |-> speaker_audio]

dual_artifacts(ts, mic_audio, speaker_audio) ==
    [ts |-> ts,
     files |-> {"<ts>/mic.wav", "<ts>/speaker.wav", "<ts>/session.json"},
     returns |-> "<ts>/mic.wav",
     mode |-> "0600",
     mic_wav |-> _to_int16(aligned_mic(mic_audio, speaker_audio)),
     speaker_wav |-> _to_int16(aligned_speaker(mic_audio, speaker_audio)),
     offset_correction_seconds |->
         offset_correction(mic_first_adc_time, speaker_first_adc_time),
     mic_audio |-> mic_audio,
     speaker_audio |-> speaker_audio]

\* Variant: the layout follows the current speaker flag.
dual_source_mode_current == speaker
\* dual_source_mode = self._speaker_enabled_ever
dual_source_mode == speaker_enabled_ever

\* RecordingSession._stop_and_save
_stop_and_save ==
    /\ Callable
    /\ mic_stream' = "None"
    /\ speaker_stream' = "None"
    /\ \E restore_ok \in Only(original_output # None, env.restore) :
        /\ output_device' =
               restored_output(original_output, output_device, restore_ok)
        /\ restore_refused' =
               (restore_refused \/ refused(original_output, restore_ok))
    /\ original_output' = None
    /\ IF mic_chunks = <<>>
       THEN /\ result' = "NoAudio"
            /\ UNCHANGED <<mic_chunks, speaker_chunks, save_dir>>
       ELSE LET mic_audio == concatenate(mic_chunks)
                speaker_audio == concatenate(speaker_chunks)
                ts == Len(save_dir) + 1
            IN  /\ mic_chunks' = <<>>
                /\ speaker_chunks' = <<>>
                /\ save_dir' = Append(save_dir,
                       IF dual_source_mode
                       THEN dual_artifacts(ts, mic_audio, speaker_audio)
                       ELSE single_artifacts(ts, mic_audio, speaker_audio))
                /\ result' = "Saved"
    /\ phase' = "stopped"
    /\ lastOp' = "_stop_and_save"
    /\ late_ops' = Counted
    /\ UNCHANGED <<speaker, mic_arg, device_idx, blackhole_idx,
                   speaker_enabled_ever, mic_first_adc_time,
                   speaker_first_adc_time, devices, env, mic_log, speaker_log, adc_log,
                   requested, initial_output, switched_ever, enabled_ok_ever>>
    /\ UNCHANGED <<threads, pipeline, merging, screen, noting>>

\* Variant: cancelling closes the streams and leaves the routing switched.
_do_cancel_routing_kept ==
    /\ phase = "recording"
    /\ mic_stream' = "None"
    /\ speaker_stream' = "None"
    /\ phase' = "cancelled"
    /\ lastOp' = "_do_cancel"
    /\ result' = "None"
    /\ UNCHANGED <<speaker, mic_arg, device_idx, blackhole_idx, mic_chunks,
                   speaker_chunks, original_output, speaker_enabled_ever,
                   mic_first_adc_time, speaker_first_adc_time>>
    /\ UNCHANGED <<platform, mic_log, speaker_log, adc_log, requested,
                   initial_output, switched_ever, restore_refused,
                   enabled_ok_ever, late_ops>>
    /\ UNCHANGED <<threads, pipeline, merging, screen, noting>>

\* RecordingScreen._do_cancel: the screen is dismissed with the session
_do_cancel ==
    /\ phase = "recording"
    /\ mic_stream' = "None"
    /\ speaker_stream' = "None"
    /\ \E restore_ok \in Only(original_output # None, env.restore) :
        /\ output_device' =
               restored_output(original_output, output_device, restore_ok)
        /\ restore_refused' =
               (restore_refused \/ refused(original_output, restore_ok))
    /\ original_output' = None
    /\ phase' = "cancelled"
    /\ lastOp' = "_do_cancel"
    /\ result' = "None"
    /\ UNCHANGED <<speaker, mic_arg, device_idx, blackhole_idx, mic_chunks,
                   speaker_chunks, speaker_enabled_ever, mic_first_adc_time,
                   speaker_first_adc_time, devices, save_dir, env, mic_log,
                   speaker_log, adc_log, requested, initial_output, switched_ever,
                   enabled_ok_ever, late_ops>>
    /\ UNCHANGED <<threads, pipeline, merging, screen, noting>>

\* ------------------------------------------------------------ specification

Next ==
    \/ start
    \/ _start_recording
    \/ _mic_callback
    \/ _speaker_callback
    \/ \E d \in list_input_devices(devices), open_ok \in env.open :
           switch_mic(d, open_ok)
    \/ enable_speaker_capture
    \/ disable_speaker_capture
    \/ _stop_and_save
    \/ _do_cancel

Spec == Init /\ [][Next]_vars

\* ------------------------------------------------------ the recording screen

\* A session inside the recording screen, on a platform where the routing
\* switch and the opening of a stream may fail.
Screening ==
    [levels |-> {1}, timed |-> {TRUE}, status |-> {FALSE}, query |-> {TRUE},
     switch |-> BOOLEAN, restore |-> {TRUE}, open |-> BOOLEAN, blocks |-> 2,
     late |-> 0, mic_args |-> {None}, tables |-> DeviceTables]

\* RecordingScreen.__init__, and the arguments its session is made of
ScreenInit ==
    /\ Constructed({Screening})
    /\ ThreadsIdle /\ NoPipeline /\ NoMerge /\ NoNotes
    /\ screen = RecordingScreen(speaker)

\* The screen is mounted and not dismissed.
Mounted == phase = "recording"

\* Variant: the wrapper feeds the level meter before it calls the original.
patched_cb_push_first(original_cb) == <<"push">> \o original_cb
\* def patched_cb(indata, ...): original_cb(indata, ...); waveform.push(indata)
patched_cb(original_cb) == original_cb \o <<"push">>

\* The buffer of a source after a callback that does `effects` with indata.
RECURSIVE called_with(_, _, _)
called_with(effects, chunks, indata) ==
    IF effects = <<>> THEN chunks
    ELSE called_with(Tail(effects),
             IF Head(effects) = "append" THEN append_chunk(chunks, indata)
             ELSE chunks,
             indata)

\* _start_recording got as far as patching the callbacks
patches(outcome) ==
    outcome \notin {"ValueError", "BlackHoleNotFound", "SwitchFailed"}

\* RecordingScreen.on_mount: _start_recording runs the steps of a start,
\* wraps the mic callback, and the speaker callback of a speaker session,
\* before it opens the streams.
on_mount ==
    /\ start_steps("start")
    /\ LET mic_cb == IF patches(result') THEN patched_cb(screen._mic_callback)
                     ELSE screen._mic_callback
           speaker_cb == IF patches(result') /\ screen.speaker
                         THEN patched_cb(screen._speaker_callback)
                         ELSE screen._speaker_callback
       IN  screen' = [screen EXCEPT
               !._mic_callback = mic_cb,
               !._speaker_callback = speaker_cb,
               !.mic_bound = IF mic_stream' = "open" THEN mic_cb ELSE @,
               !.speaker_bound = IF speaker_stream' = "open" THEN speaker_cb
                                 ELSE @]
    /\ UNCHANGED <<threads, pipeline, merging, noting>>

\* The subsystem delivers a block to the callback the mic stream was opened
\* with.
patched_mic_cb ==
    /\ mic_stream = "open"
    /\ Delivered < env.blocks
    /\ \E lvl \in env.levels, adc_time \in AdcOutcomes, status \in env.status :
        LET indata == Block(Delivered + 1, lvl, device_idx) IN
        /\ mic_first_adc_time' = first_adc_time(mic_first_adc_time, adc_time)
        /\ mic_chunks' = called_with(screen.mic_bound, mic_chunks, indata)
        /\ mic_log' = Append(mic_log, indata)
        /\ adc_log' = Append(adc_log, timed("mic", adc_time))
        /\ result' = logged(status)
    /\ screen' = [screen EXCEPT !.effects = screen.mic_bound]
    /\ lastOp' = "_mic_callback"
    /\ UNCHANGED <<speaker, mic_arg, device_idx, blackhole_idx, speaker_chunks,
                   mic_stream, speaker_stream, original_output,
                   speaker_enabled_ever, speaker_first_adc_time>>
    /\ UNCHANGED <<platform, phase, speaker_log, requested, initial_output,
                   switched_ever, restore_refused, enabled_ok_ever, late_ops>>
    /\ UNCHANGED <<threads, pipeline, merging, noting>>

\* The subsystem delivers a block to the callback the speaker stream was
\* opened with.
patched_speaker_cb ==
    /\ speaker_stream = "open"
    /\ Delivered < env.blocks
    /\ \E lvl \in env.levels, adc_time \in AdcOutcomes, status \in env.status :
        LET indata == Block(Delivered + 1, lvl, blackhole_idx) IN
        /\ speaker_first_adc_time' =
               first_adc_time(speaker_first_adc_time, adc_time)
        /\ speaker_chunks' = called_with(screen.speaker_bound, speaker_chunks, indata)
        /\ speaker_log' = Append(speaker_log, indata)
        /\ adc_log' = Append(adc_log, timed("speaker", adc_time))
        /\ result' = logged(status)
    /\ screen' = [screen EXCEPT !.effects = screen.speaker_bound]
    /\ lastOp' = "_speaker_callback"
    /\ UNCHANGED <<speaker, mic_arg, device_idx, blackhole_idx, mic_chunks,
                   mic_stream, speaker_stream, original_output,
                   speaker_enabled_ever, mic_first_adc_time>>
    /\ UNCHANGED <<platform, phase, mic_log, requested, initial_output,
                   switched_ever, restore_refused, enabled_ok_ever, late_ops>>
    /\ UNCHANGED <<threads, pipeline, merging, noting>>

\* RecordingScreen.action_add_speaker_capture: returns when the flag is on;
\* else wraps the session's speaker callback, calls enable_speaker_capture,
\* and sets the flag when that returns no error.
action_add_speaker_capture ==
    /\ Mounted
    /\ IF screen.speaker
       THEN /\ screen' = [screen EXCEPT
                    !.action = "action_add_speaker_capture", !.called = <<>>]
            /\ UNCHANGED <<session, platform, history>>
       ELSE /\ Len(screen._speaker_callback) <= MaxWraps
            /\ enable_speaker_capture_call
            /\ LET speaker_cb == patched_cb(screen._speaker_callback) IN
               screen' = [screen EXCEPT
                    !._speaker_callback = speaker_cb,
                    !.speaker_bound =
                        IF speaker_stream # "open" /\ speaker_stream' = "open"
                        THEN speaker_cb ELSE @,
                    !.speaker = (result' = "None"),
                    !.action = "action_add_speaker_capture",
                    !.called = <<"enable_speaker_capture">>]
    /\ UNCHANGED <<threads, pipeline, merging, noting>>

\* Variant: the session is told to disable whatever the flag says.
action_remove_speaker_capture_unguarded ==
    /\ Mounted
    /\ disable_speaker_capture_call
    /\ screen' = [screen EXCEPT
            !.speaker = FALSE,
            !.action = "action_remove_speaker_capture",
            !.called = <<"disable_speaker_capture">>]
    /\ UNCHANGED <<threads, pipeline, merging, noting>>

\* RecordingScreen.action_remove_speaker_capture
action_remove_speaker_capture ==
    /\ Mounted
    /\ IF screen.speaker
       THEN /\ disable_speaker_capture_call
            /\ screen' = [screen EXCEPT
                    !.speaker = FALSE,
                    !.action = "action_remove_speaker_capture",
                    !.called = <<"disable_speaker_capture">>]
       ELSE /\ screen' = [screen EXCEPT
                    !.action = "action_remove_speaker_capture",
                    !.called = <<>>]
            /\ UNCHANGED <<session, platform, history>>
    /\ UNCHANGED <<threads, pipeline, merging, noting>>

\* RecordingScreen.action_toggle_speaker
action_toggle_speaker ==
    IF screen.speaker THEN action_remove_speaker_capture
    ELSE action_add_speaker_capture

\* RecordingScreen._on_mic_selected(device_idx): the mic select screen
\* answers the selected device, or None
_on_mic_selected(selected, open_ok) ==
    /\ Mounted
    /\ IF selected # None THEN switch_mic(selected[1], open_ok)
       ELSE UNCHANGED vars

\* RecordingScreen.action_stop_save
action_stop_save == Mounted /\ _stop_and_save

ScreenNext ==
    \/ on_mount
    \/ patched_mic_cb
    \/ patched_speaker_cb
    \/ action_toggle_speaker
    \/ action_add_speaker_capture
    \/ action_remove_speaker_capture
    \/ \E d \in list_input_devices(devices), open_ok \in env.open :
           _on_mic_selected(Some(d), open_ok)
    \/ _on_mic_selected(None, TRUE)
    \/ action_stop_save
    \/ _do_cancel

ScreenSpec == ScreenInit /\ [][ScreenNext]_vars

\* ------------------------------------------------- the threads, step by step

\* A recording on a platform whose calls succeed, looked at one statement
\* group at a time: the callbacks run on the streams' threads while the
\* main thread runs the control operations.  A block may come without an
\* ADC time.
\* The permissions a newly created file gets from the process umask (0o022
\* and 0o077).
CreationModes == {"0644", "0600"}

Threaded ==
    [levels |-> {1}, timed |-> BOOLEAN, status |-> {FALSE}, query |-> {TRUE},
     switch |-> {TRUE}, restore |-> {TRUE}, open |-> {TRUE},
     blocks |-> MaxFaultyBlocks, late |-> 0, mic_args |-> {None},
     tables |-> {DevicesWithBlackHole}, created |-> CreationModes]

Sources == {"mic", "speaker"}
stream_of(src) == IF src = "mic" THEN mic_stream ELSE speaker_stream
device_of(src) == IF src = "mic" THEN device_idx ELSE blackhole_idx

\* Blocks handed to a callback that has not appended them yet.
InFlight == Cardinality({src \in Sources : locals[src] # None})

\* The callback is invoked: status check and _extract_input_adc_time, up to
\* "with self._lock".  A callback that was running when its stream was
\* stopped may still finish.
callback_enter(src) ==
    /\ stream_of(src) = "open"
    /\ pc[src] = "idle"
    /\ Delivered + InFlight < env.blocks
    /\ \E lvl \in env.levels, adc_time \in AdcOutcomes :
        locals' = [locals EXCEPT ![src] =
            Some([indata |-> Block(Delivered + InFlight + 1, lvl, device_of(src)),
                  adc_time |-> adc_time])]
    /\ pc' = [pc EXCEPT ![src] = "waiting"]
    /\ UNCHANGED <<session, platform, history, _lock>>
    /\ UNCHANGED <<pipeline, merging, screen, noting>>

\* with self._lock: the callback gets the lock
callback_acquire(src) ==
    /\ pc[src] = "waiting"
    /\ _lock = "free"
    /\ _lock' = src
    /\ pc' = [pc EXCEPT ![src] = "locked"]
    /\ UNCHANGED <<session, platform, history, locals>>
    /\ UNCHANGED <<pipeline, merging, screen, noting>>

\* the body of the with block: first ADC time and append
callback_append(src) ==
    /\ pc[src] = "locked"
    /\ LET indata == locals[src][1].indata
           adc_time == locals[src][1].adc_time
       IN  IF src = "mic"
           THEN /\ mic_first_adc_time' =
                       first_adc_time(mic_first_adc_time, adc_time)
                /\ mic_chunks' = append_chunk(mic_chunks, indata)
                /\ mic_log' = Append(mic_log, indata)
                /\ lastOp' = "_mic_callback"
                /\ UNCHANGED <<speaker_first_adc_time, speaker_chunks,
                               speaker_log>>
           ELSE /\ speaker_first_adc_time' =
                       first_adc_time(speaker_first_adc_time, adc_time)
                /\ speaker_chunks' = append_chunk(speaker_chunks, indata)
                /\ speaker_log' = Append(speaker_log, indata)
                /\ lastOp' = "_speaker_callback"
                /\ UNCHANGED <<mic_first_adc_time, mic_chunks, mic_log>>
    /\ adc_log' = Append(adc_log, timed(src, locals[src][1].adc_time))
    /\ result' = "None"
    /\ pc' = [pc EXCEPT ![src] = "appended"]
    /\ UNCHANGED <<speaker, mic_arg, device_idx, blackhole_idx, mic_stream,
                   speaker_stream, original_output, speaker_enabled_ever,
                   platform, phase, requested, initial_output, switched_ever,
                   restore_refused, enabled_ok_ever, late_ops, _lock, locals>>
    /\ UNCHANGED <<pipeline, merging, screen, noting>>

\* the with block ends: the lock is released and the callback returns
callback_release(src) ==
    /\ pc[src] = "appended"
    /\ _lock' = "free"
    /\ pc' = [pc EXCEPT ![src] = "idle"]
    /\ locals' = [locals EXCEPT ![src] = None]
    /\ UNCHANGED <<session, platform, history>>
    /\ UNCHANGED <<pipeline, merging, screen, noting>>

\* A control operation that runs on the main thread as one step.
OnMain(op) == pc["main"] = "idle" /\ op

\* Variant: the lock is taken before the streams are stopped.
stop_streams_locked ==
    /\ pc["main"] = "idle"
    /\ phase = "recording"
    /\ _lock = "free"
    /\ _lock' = "main"
    /\ mic_stream' = "None"
    /\ speaker_stream' = "None"
    /\ pc' = [pc EXCEPT !["main"] = "closed"]
    /\ UNCHANGED <<speaker, mic_arg, device_idx, blackhole_idx, mic_chunks,
                   speaker_chunks, original_output, speaker_enabled_ever,
                   mic_first_adc_time, speaker_first_adc_time, platform,
                   history, locals>>
    /\ UNCHANGED <<pipeline, merging, screen, noting>>

\* _stop_and_save: both streams are stopped and closed
stop_streams ==
    /\ pc["main"] = "idle"
    /\ phase = "recording"
    /\ mic_stream' = "None"
    /\ speaker_stream' = "None"
    /\ pc' = [pc EXCEPT !["main"] = "closed"]
    /\ UNCHANGED <<speaker, mic_arg, device_idx, blackhole_idx, mic_chunks,
                   speaker_chunks, original_output, speaker_enabled_ever,
                   mic_first_adc_time, speaker_first_adc_time, platform,
                   history, _lock, locals>>
    /\ UNCHANGED <<pipeline, merging, screen, noting>>

\* _stop_and_save: self._restore_audio_output()
stop_restore ==
    /\ pc["main"] = "closed"
    /\ \E restore_ok \in Only(original_output # None, env.restore) :
        /\ output_device' =
               restored_output(original_output, output_device, restore_ok)
        /\ restore_refused' =
               (restore_refused \/ refused(original_output, restore_ok))
    /\ original_output' = None
    /\ pc' = [pc EXCEPT !["main"] = "restored"]
    /\ UNCHANGED <<speaker, mic_arg, device_idx, blackhole_idx, mic_chunks,
                   speaker_chunks, mic_stream, speaker_stream,
                   speaker_enabled_ever, mic_first_adc_time,
                   speaker_first_adc_time, devices, save_dir, env, phase,
                   lastOp, result, mic_log, speaker_log, adc_log, requested,
                   initial_output, switched_ever, enabled_ok_ever, late_ops,
                   _lock, locals>>
    /\ UNCHANGED <<pipeline, merging, screen, noting>>

\* Variant: the buffers are drained without taking the lock.
stop_acquire_unlocked ==
    /\ pc["main"] = "restored"
    /\ pc' = [pc EXCEPT !["main"] = "checking"]
    /\ UNCHANGED <<session, platform, history, _lock, locals>>
    /\ UNCHANGED <<pipeline, merging, screen, noting>>

\* _stop_and_save: with self._lock
stop_acquire ==
    /\ pc["main"] = "restored"
    /\ _lock = "free"
    /\ _lock' = "main"
    /\ pc' = [pc EXCEPT !["main"] = "checking"]
    /\ UNCHANGED <<session, platform, history, locals>>
    /\ UNCHANGED <<pipeline, merging, screen, noting>>

\* if not self._mic_chunks: print("No audio recorded."); return None
stop_check ==
    /\ pc["main"] = "checking"
    /\ IF mic_chunks = <<>>
       THEN /\ _lock' = "free"
            /\ result' = "NoAudio"
            /\ phase' = "stopped"
            /\ lastOp' = "_stop_and_save"
            /\ pc' = [pc EXCEPT !["main"] = "done"]
       ELSE /\ pc' = [pc EXCEPT !["main"] = "concat_mic"]
            /\ UNCHANGED <<_lock, result, phase, lastOp>>
    /\ UNCHANGED <<session, platform, mic_log, speaker_log, adc_log, requested,
                   initial_output, switched_ever, restore_refused,
                   enabled_ok_ever, late_ops, locals>>
    /\ UNCHANGED <<pipeline, merging, screen, noting>>

\* mic_audio = np.concatenate(self._mic_chunks); self._mic_chunks.clear()
stop_concat_mic ==
    /\ pc["main"] = "concat_mic"
    /\ locals' = [locals EXCEPT !.mic_audio = concatenate(mic_chunks)]
    /\ mic_chunks' = <<>>
    /\ pc' = [pc EXCEPT !["main"] = "concat_speaker"]
    /\ UNCHANGED <<speaker, mic_arg, device_idx, blackhole_idx,
                   speaker_chunks, mic_stream, speaker_stream,
                   original_output, speaker_enabled_ever, mic_first_adc_time,
                   speaker_first_adc_time, platform, history, _lock>>
    /\ UNCHANGED <<pipeline, merging, screen, noting>>

\* speaker_audio = np.concatenate(self._speaker_chunks);
\* self._speaker_chunks.clear(); the with block ends
stop_concat_speaker ==
    /\ pc["main"] = "concat_speaker"
    /\ locals' = [locals EXCEPT !.speaker_audio = concatenate(speaker_chunks)]
    /\ speaker_chunks' = <<>>
    /\ _lock' = "free"
    /\ pc' = [pc EXCEPT !["main"] = "writing"]
    /\ UNCHANGED <<speaker, mic_arg, device_idx, blackhole_idx, mic_chunks,
                   mic_stream, speaker_stream, original_output,
                   speaker_enabled_ever, mic_first_adc_time,
                   speaker_first_adc_time, platform, history>>
    /\ UNCHANGED <<pipeline, merging, screen, noting>>

\* The files one save creates, in the order it creates them.
artifact_files ==
    IF dual_source_mode
    THEN <<"<ts>/mic.wav", "<ts>/speaker.wav", "<ts>/session.json">>
    ELSE <<"<ts>.wav">>

\* wavfile.write(...) of _save_private_wav, and write_text(...) for
\* session.json: the next file is created, with the permissions the umask
\* leaves.
write_file ==
    /\ pc["main"] = "writing"
    /\ Len(locals.on_disk) < Len(artifact_files)
    /\ \E mode \in env.created :
        locals' = [locals EXCEPT !.on_disk =
            Append(@, [file |-> artifact_files[Len(@) + 1], mode |-> mode])]
    /\ pc' = [pc EXCEPT !["main"] = "chmod"]
    /\ UNCHANGED <<session, platform, history, _lock>>
    /\ UNCHANGED <<pipeline, merging, screen, noting>>

\* path.chmod(0o600) on the file just written
chmod ==
    /\ pc["main"] = "chmod"
    /\ locals' = [locals EXCEPT !.on_disk[Len(locals.on_disk)].mode = "0600"]
    /\ pc' = [pc EXCEPT !["main"] = "writing"]
    /\ UNCHANGED <<session, platform, history, _lock>>
    /\ UNCHANGED <<pipeline, merging, screen, noting>>

\* every file is written and the path is returned
stop_write ==
    /\ pc["main"] = "writing"
    /\ Len(locals.on_disk) = Len(artifact_files)
    /\ LET ts == Len(save_dir) + 1 IN
       save_dir' = Append(save_dir,
           IF dual_source_mode
           THEN dual_artifacts(ts, locals.mic_audio, locals.speaker_audio)
           ELSE single_artifacts(ts, locals.mic_audio, locals.speaker_audio))
    /\ locals' = [locals EXCEPT !.on_disk = <<>>]
    /\ result' = "Saved"
    /\ phase' = "stopped"
    /\ lastOp' = "_stop_and_save"
    /\ pc' = [pc EXCEPT !["main"] = "done"]
    /\ UNCHANGED <<session, output_device, devices, env, mic_log,
                   speaker_log, adc_log, requested, initial_output,
                   switched_ever, restore_refused, enabled_ok_ever, late_ops,
                   _lock>>
    /\ UNCHANGED <<pipeline, merging, screen, noting>>

ThreadedInit ==
    /\ Constructed({Threaded})
    /\ ThreadsIdle /\ NoPipeline /\ NoMerge /\ NoScreen /\ NoNotes

ThreadedNext ==
    \/ OnMain(start)
    \/ \E src \in Sources : callback_enter(src)
    \/ \E src \in Sources : callback_acquire(src)
    \/ \E src \in Sources : callback_append(src)
    \/ \E src \in Sources : callback_release(src)
    \/ \E d \in list_input_devices(devices), open_ok \in env.open :
           OnMain(switch_mic(d, open_ok))
    \/ OnMain(enable_speaker_capture)
    \/ OnMain(disable_speaker_capture)
    \/ stop_streams
    \/ stop_restore
    \/ stop_acquire
    \/ stop_check
    \/ stop_concat_mic
    \/ stop_concat_speaker
    \/ write_file
    \/ chmod
    \/ stop_write

ThreadedSpec == ThreadedInit /\ [][ThreadedNext]_vars

\* ------------------------------------------------ transcription and cleanup

\* A file on disk is missing, empty (st_size == 0) or full.
Unusable == {"missing", "empty"}

\* Variant: a transcript only has to exist; its size is not looked at.
cleanup_audio_unsized(files, mds, audio_path, md_paths, unlink_ok) ==
    IF \E k \in 1..Len(md_paths) : mds[md_paths[k]] = "missing"
    THEN [returns |-> FALSE, files |-> files]
    ELSE IF files[audio_path] # "missing" /\ unlink_ok
    THEN [returns |-> TRUE, files |-> [files EXCEPT ![audio_path] = "missing"]]
    ELSE [returns |-> FALSE, files |-> files]

\* output.cleanup_audio(audio_path, md_paths): the value it returns and the
\* audio files it leaves.  unlink_ok = FALSE is the OSError of unlink, which
\* a missing audio file raises as well.
cleanup_audio(files, mds, audio_path, md_paths, unlink_ok) ==
    IF \E k \in 1..Len(md_paths) : mds[md_paths[k]] \in Unusable
    THEN [returns |-> FALSE, files |-> files]
    ELSE IF files[audio_path] # "missing" /\ unlink_ok
    THEN [returns |-> TRUE, files |-> [files EXCEPT ![audio_path] = "missing"]]
    ELSE [returns |-> FALSE, files |-> files]

\* audio_path.name.lower(), on the names a recording is given under
name_lower(name) == CASE name = "MIC.WAV" -> "mic.wav" [] OTHER -> name

\* path.exists()
exists(files, path) == files[path] # "missing"

\* Variant: one of the two siblings is enough.
siblings_missing_both(files) ==
    ~exists(files, "speaker.wav") /\ ~exists(files, "session.json")
\* if not speaker_path.exists() or not session_json_path.exists()
siblings_missing(files) ==
    ~exists(files, "speaker.wav") \/ ~exists(files, "session.json")

\* float(x) on a JSON value: [ok, value], ok = FALSE is the TypeError
float(x) ==
    IF x.type = "number" THEN [ok |-> TRUE, value |-> x.value]
    ELSE [ok |-> FALSE, value |-> 0]

\* offset = float(json.loads(...).get("offset_correction_seconds", 0.0)),
\* and 0.0 on any exception
session_offset(text) ==
    IF ~text.json THEN 0
    ELSE IF "offset_correction_seconds" \notin DOMAIN text.meta THEN 0
    ELSE LET f == float(text.meta.offset_correction_seconds)
         IN  IF f.ok THEN f.value ELSE 0

\* _load_dual_source_session(audio_path), on the files beside audio_path and
\* the text of session.json
_load_dual_source_session(audio_path, files, text) ==
    IF name_lower(audio_path) # "mic.wav" THEN None
    ELSE IF siblings_missing(files) THEN None
    ELSE Some([session_json_path |-> "session.json",
               mic_audio_path |-> audio_path,
               speaker_audio_path |-> "speaker.wav",
               speaker_offset_seconds |-> session_offset(text)])

\* cleanup_targets: the audio files of the recording
cleanup_targets(j) ==
    IF j.dual
    THEN <<j.dual_session[1].mic_audio_path,
           j.dual_session[1].speaker_audio_path>>
    ELSE <<j.audio_path>>

\* for target in cleanup_targets: cleanup_audio(target, all_md_paths)
RECURSIVE cleanup_each(_, _, _, _, _)
cleanup_each(files, mds, targets, md_paths, oks) ==
    IF targets = <<>>
    THEN [files |-> files, removed |-> {}, refused |-> {}]
    ELSE LET c == cleanup_audio(files, mds, Head(targets), md_paths,
                                oks[Head(targets)])
             rest == cleanup_each(c.files, mds, Tail(targets), md_paths, oks)
         IN  [files |-> rest.files,
              removed |-> rest.removed \cup
                          (IF c.returns THEN {Head(targets)} ELSE {}),
              refused |-> rest.refused \cup
                          (IF c.returns THEN {} ELSE {Head(targets)})]

\* The pipelines that are started: transcribe_worker.main with one model,
\* cli._run_transcription_pipeline with the models asked for.
Jobs ==
    { j \in {[pipeline |-> p, audio_path |-> a, dual_session |-> None,
              dual |-> FALSE, models |-> n, i |-> 1,
              at |-> "start", results |-> <<>>, removed |-> {},
              refused |-> {}, result_file |-> "None"] :
                 p \in {"main", "_run_transcription_pipeline"},
                 a \in {"wav", "mic.wav", "MIC.WAV"}, n \in Models} :
          j.pipeline = "main" => j.models = 1 }

\* offset_correction_seconds as a stop persists it (multiples of 0.1 ms)
PersistedOffsets == {-10, 0, 30}

\* metadata of _stop_and_save, as far as it is read again
metadata(offset) ==
    [mode |-> "mic+speaker", offset_correction_seconds |-> JsonNumber(offset)]

\* What a session.json that exists may hold: what a stop wrote, no JSON, an
\* object without the offset, an object whose offset is null.
Descriptors ==
    { dumps(metadata(x)) : x \in PersistedOffsets }
    \cup { NotJson,
           dumps([mode |-> "mic+speaker"]),
           dumps([mode |-> "mic+speaker",
                  offset_correction_seconds |-> JsonNull]) }

\* The pipeline is given an audio file that exists; a file with the mic's
\* name may have the speaker's file and the descriptor beside it.
PipelineInit ==
    /\ Constructed({Threaded})
    /\ speaker = FALSE
    /\ ThreadsIdle
    /\ job \in Jobs
    /\ \E beside \in SUBSET {"speaker.wav", "session.json"} :
          /\ (job.audio_path = "wav" => beside = {})
          /\ audio_files = [a \in AudioPaths |->
                 IF a = job.audio_path \/ a \in beside
                 THEN "full" ELSE "missing"]
    /\ session_json \in IF exists(audio_files, "session.json")
                         THEN Descriptors ELSE {NotJson}
    /\ transcripts = [m \in Models |-> "missing"]
    /\ NoMerge /\ NoScreen /\ NoNotes

\* write_error(msg); sys.exit(1)
write_error(j) == [j EXCEPT !.result_file = "ERROR", !.at = "exit"]

\* Either pipeline up to its first transcription.  The worker ends with an
\* error when the model is not installed or the notes do not load; the
\* command line returns when no model is installed.
load_dual_session ==
    /\ job.at = "start"
    /\ \E ready \in BOOLEAN :
        LET dual_session ==
                _load_dual_source_session(job.audio_path, audio_files,
                                          session_json)
            loaded == [job EXCEPT !.dual_session = dual_session,
                                  !.dual = (dual_session # None)]
        IN  job' = IF ready THEN [loaded EXCEPT !.at = "transcribe"]
                   ELSE IF job.pipeline = "main" THEN write_error(job)
                   ELSE [loaded EXCEPT !.at = "done"]
    /\ UNCHANGED <<session, platform, history, threads, merging, screen, noting, audio_files,
                   transcripts, session_json>>

\* _run_transcription_pipeline after one model: the next model, or the end
\* of the loop, where no result means "All transcriptions failed" and the
\* audio is kept.
after_model(j) ==
    IF j.i < j.models THEN [j EXCEPT !.i = j.i + 1, !.at = "transcribe"]
    ELSE IF j.results = <<>> THEN [j EXCEPT !.at = "done"]
    ELSE [j EXCEPT !.at = "cleanup"]

\* transcribe(...) for the current model.  A failure ends the worker
\* (write_error; sys.exit(1)) and makes the command-line loop continue.
transcribe ==
    /\ job.at = "transcribe"
    /\ \E ok \in BOOLEAN :
        job' = IF ok THEN [job EXCEPT !.at = "save_transcript"]
               ELSE IF job.pipeline = "main" THEN write_error(job)
               ELSE after_model(job)
    /\ UNCHANGED <<session, platform, history, threads, merging, screen, noting, audio_files,
                   transcripts, session_json>>

\* save_transcript(...) for the current model: the transcript is written, or
\* the call raises before writing, or while writing (an empty file stays).
\* In this source tree both callers pass filename_stem, which save_transcript
\* does not accept, so the call raises; a save that goes through is kept in
\* the model as well.  The worker reports the exception as an error; the
\* command line lets it end the pipeline.
save_transcript ==
    /\ job.at = "save_transcript"
    /\ \E outcome \in {"written", "raised", "truncated"} :
        IF outcome = "written"
        THEN /\ transcripts' = [transcripts EXCEPT ![job.i] = "full"]
             /\ LET saved == [job EXCEPT !.results = Append(job.results, job.i)]
                IN  job' = IF job.pipeline = "main"
                           THEN [saved EXCEPT !.at = "cleanup"]
                           ELSE after_model(saved)
        ELSE /\ transcripts' = [transcripts EXCEPT ![job.i] =
                    IF outcome = "truncated" THEN "empty" ELSE @]
             /\ job' = IF job.pipeline = "main" THEN write_error(job)
                       ELSE [job EXCEPT !.at = "exit"]
    /\ UNCHANGED <<session, platform, history, threads, merging, screen, noting, audio_files,
                   session_json>>

\* Something else removes or empties a saved transcript before the cleanup.
transcript_disturbed ==
    /\ job.at = "cleanup"
    /\ \E k \in 1..Len(job.results), to \in Unusable :
        /\ transcripts[job.results[k]] = "full"
        /\ transcripts' = [transcripts EXCEPT ![job.results[k]] = to]
    /\ UNCHANGED <<session, platform, history, threads, merging, screen, noting, audio_files, job,
                   session_json>>

\* Variant: the worker unlinks session.json only when every audio file was
\* removed, as the command line does.
unlinks_session_json_if_removed(j, all_removed) == j.dual /\ all_removed
\* The worker unlinks session.json in any case, the command line only when
\* every audio file was removed.
unlinks_session_json(j, all_removed) ==
    j.dual /\ (j.pipeline = "main" \/ all_removed)

\* The cleanup at the end of either pipeline; the worker has its result
\* file still to write.
cleanup_sources ==
    /\ job.at = "cleanup"
    /\ \E oks \in [AudioPaths -> BOOLEAN] :
        LET c == cleanup_each(audio_files, transcripts,
                              cleanup_targets(job), job.results, oks)
            all_removed == c.refused = {}
            unlink_json ==
                unlinks_session_json(job, all_removed) /\ oks["session.json"]
        IN  /\ audio_files' = [c.files EXCEPT !["session.json"] =
                                  IF unlink_json THEN "missing" ELSE @]
            /\ job' = [job EXCEPT !.at = IF job.pipeline = "main"
                                         THEN "report" ELSE "done",
                                  !.removed = c.removed,
                                  !.refused = c.refused]
    /\ UNCHANGED <<session, platform, history, threads, merging, screen, noting, transcripts,
                   session_json>>

\* result_file.write_text(f"OK:{md_path}")
write_ok ==
    /\ job.at = "report"
    /\ job' = [job EXCEPT !.result_file = "OK", !.at = "done"]
    /\ UNCHANGED <<session, platform, history, threads, merging, screen, noting, audio_files,
                   transcripts, session_json>>

PipelineNext ==
    \/ load_dual_session
    \/ transcribe
    \/ save_transcript
    \/ transcript_disturbed
    \/ cleanup_sources
    \/ write_ok

PipelineSpec == PipelineInit /\ [][PipelineNext]_vars

\* ------------------------------------------------------------ the notes

\* What the user types as a note (on_input_submitted strips it and drops an
\* empty one).
NoteTexts == {"a", "b"}

\* Note(index, text, timestamp)
Note(index, text, timestamp) ==
    [index |-> index, text |-> text, timestamp |-> timestamp]

\* Variant: the first note is numbered zero.
next_index_from_zero(collected) == Len(collected)
\* idx = len(self._notes) + 1
next_index(collected) == Len(collected) + 1

\* elapsed = time.time() - self._start_time if self._start_time else 0.0
elapsed(t, start_time) == IF start_time # 0 THEN t - start_time ELSE 0

\* NoteCollection.notes: a copy of the list, in its order
notes == _notes

NotesInit ==
    /\ Constructed({Threaded})
    /\ speaker = FALSE
    /\ ThreadsIdle /\ NoPipeline /\ NoMerge /\ NoScreen /\ NoNotes

\* NoteCollection.start
start_notes ==
    /\ _start_time' = now
    /\ UNCHANGED <<_notes, now, added, cleared>>
    /\ UNCHANGED <<session, platform, history, threads, pipeline, merging,
                   screen>>

\* NoteCollection.add(text)
add(text) ==
    /\ Len(_notes) < MaxNotes
    /\ LET idx == next_index(_notes)
           note == Note(idx, text, elapsed(now, _start_time))
       IN  _notes' = Append(_notes, note)
    /\ added' = Append(added, text)
    /\ UNCHANGED <<_start_time, now, cleared>>
    /\ UNCHANGED <<session, platform, history, threads, pipeline, merging,
                   screen>>

\* NoteCollection.clear
clear ==
    /\ _notes' = <<>>
    /\ _start_time' = 0
    /\ added' = <<>>
    /\ cleared' = TRUE
    /\ UNCHANGED now
    /\ UNCHANGED <<session, platform, history, threads, pipeline, merging,
                   screen>>

\* time passes
tick ==
    /\ now < MaxTime
    /\ now' = now + 1
    /\ UNCHANGED <<_notes, _start_time, added, cleared>>
    /\ UNCHANGED <<session, platform, history, threads, pipeline, merging,
                   screen>>

NotesNext ==
    \/ start_notes
    \/ \E text \in NoteTexts : add(text)
    \/ clear
    \/ tick

NotesSpec == NotesInit /\ [][NotesNext]_vars

\* ------------------------------------------- merging the two transcriptions

\* Segment times and offsets are whole numbers of one time unit; a text is
\* the tuple of its characters.

FracGE(x, y) == x.n * y.d >= y.n * x.d
FracGT(x, y) == x.n * y.d > y.n * x.d
\* max(x, y, z) of Python: the first of the largest
FracMax(x, y, z) ==
    LET xy == IF FracGT(y, x) THEN y ELSE x
    IN  IF FracGT(z, xy) THEN z ELSE xy

\* str.strip()
Whitespace == {" "}
RECURSIVE lstrip(_)
lstrip(text) ==
    IF text # <<>> /\ Head(text) \in Whitespace THEN lstrip(Tail(text))
    ELSE text
RECURSIVE rstrip(_)
rstrip(text) ==
    IF text # <<>> /\ text[Len(text)] \in Whitespace
    THEN rstrip(SubSeq(text, 1, Len(text) - 1))
    ELSE text
strip(text) == rstrip(lstrip(text))

\* _source_label
YOU == <<"Y", "O", "U">>
THEM == <<"T", "H", "E", "M">>
\* Variant: every segment is labelled as the user's.
_source_label_fixed(source) == YOU
_source_label(source) == IF source = "mic" THEN YOU ELSE THEM

\* _normalize_words: set(re.findall(r"[a-z0-9']+", text.lower()))
WordChars == {"a", "b", "c", "'"} \cup Digits
RECURSIVE findall_words(_, _)
findall_words(text, word) ==
    LET found == IF word = <<>> THEN {} ELSE {word} IN
    IF text = <<>> THEN found
    ELSE IF Head(text) \in WordChars
    THEN findall_words(Tail(text), Append(word, Head(text)))
    ELSE found \cup findall_words(Tail(text), <<>>)
_normalize_words(text) == findall_words(Lower(text), <<>>)

\* difflib.SequenceMatcher(None, a, b).find_longest_match over a[alo..ahi]
\* and b[blo..bhi] (1-based, inclusive): the longest common block, the
\* earliest in a among the longest, the earliest in b among those.  No
\* element is junk (isjunk is None, and the popularity heuristic needs 200
\* elements).  <<i, j, 0>> when no element matches.
CommonBlocks(a, b, alo, ahi, blo, bhi) ==
    { m \in (alo..ahi) \X (blo..bhi) \X (1..Len(a)) :
        /\ m[1] + m[3] - 1 <= ahi
        /\ m[2] + m[3] - 1 <= bhi
        /\ \A k \in 0..(m[3] - 1) : a[m[1] + k] = b[m[2] + k] }
find_longest_match(a, b, alo, ahi, blo, bhi) ==
    LET blocks == CommonBlocks(a, b, alo, ahi, blo, bhi)
    IN  IF blocks = {} THEN <<alo, blo, 0>>
        ELSE CHOOSE m \in blocks : \A o \in blocks :
                 \/ m[3] > o[3]
                 \/ m[3] = o[3] /\ m[1] < o[1]
                 \/ m[3] = o[3] /\ m[1] = o[1] /\ m[2] <= o[2]

\* The number of matched elements of get_matching_blocks: the longest block,
\* then the same to its left and to its right.
RECURSIVE matches(_, _, _, _, _, _)
matches(a, b, alo, ahi, blo, bhi) ==
    LET m == find_longest_match(a, b, alo, ahi, blo, bhi)
    IN  IF m[3] = 0 THEN 0
        ELSE m[3] + matches(a, b, alo, m[1] - 1, blo, m[2] - 1)
                  + matches(a, b, m[1] + m[3], ahi, m[2] + m[3], bhi)

\* SequenceMatcher.ratio(): 2.0 * matches / (len(a) + len(b))
ratio(a, b) ==
    IF Len(a) + Len(b) = 0 THEN Frac(1, 1)
    ELSE Frac(2 * matches(a, b, 1, Len(a), 1, Len(b)), Len(a) + Len(b))

\* _text_similarity
_text_similarity(a, b) ==
    LET a_clean == Lower(strip(a))
        b_clean == Lower(strip(b))
        seq_ratio == ratio(a_clean, b_clean)
        wa == _normalize_words(a_clean)
        wb == _normalize_words(b_clean)
        both == Cardinality(wa \cap wb)
        fewer == IF Cardinality(wa) <= Cardinality(wb)
                 THEN Cardinality(wa) ELSE Cardinality(wb)
        token_jaccard == Frac(both, Cardinality(wa \cup wb))
        token_containment == Frac(both, fewer)
    IN  IF a_clean = <<>> \/ b_clean = <<>> THEN Frac(0, 1)
        ELSE IF wa = {} \/ wb = {} THEN seq_ratio
        ELSE FracMax(seq_ratio, token_jaccard, token_containment)

\* start = max(0.0, float(seg["start"]) + offset_seconds)
\* Variant: a start shifted below zero stays below zero.
shifted_start_unclamped(seg, offset_seconds) == seg.start + offset_seconds
shifted_start(seg, offset_seconds) ==
    IF seg.start + offset_seconds > 0 THEN seg.start + offset_seconds ELSE 0

\* end = max(start, float(seg["end"]) + offset_seconds)
shifted_end(seg, offset_seconds) ==
    IF seg.end + offset_seconds > shifted_start(seg, offset_seconds)
    THEN seg.end + offset_seconds
    ELSE shifted_start(seg, offset_seconds)

\* _tag_source_segments
RECURSIVE _tag_source_segments(_, _, _)
_tag_source_segments(segments, source, offset_seconds) ==
    IF segments = <<>> THEN <<>>
    ELSE LET seg == Head(segments)
             text == strip(seg.text)
             rest == _tag_source_segments(Tail(segments), source,
                                          offset_seconds)
         IN  IF text = <<>> THEN rest
             ELSE <<[start |-> shifted_start(seg, offset_seconds),
                     end |-> shifted_end(seg, offset_seconds),
                     text |-> text,
                     source |-> source,
                     speaker |-> _source_label(source)]>> \o rest

\* if similarity >= similarity_threshold: is_duplicate = True
\* Variant: a score equal to the threshold is no duplicate.
is_duplicate_above(mic_seg, spk_seg, similarity_threshold) ==
    FracGT(_text_similarity(mic_seg.text, spk_seg.text), similarity_threshold)
\* Variant: a duplicate has to start within one time unit of the mic segment.
is_duplicate_nearby(mic_seg, spk_seg, similarity_threshold) ==
    /\ FracGE(_text_similarity(mic_seg.text, spk_seg.text),
              similarity_threshold)
    /\ mic_seg.start - spk_seg.start \in -1..1
is_duplicate(mic_seg, spk_seg, similarity_threshold) ==
    FracGE(_text_similarity(mic_seg.text, spk_seg.text), similarity_threshold)

\* _suppress_mic_bleed_duplicates
_suppress_mic_bleed_duplicates(mic_segments, speaker_segments, threshold) ==
    SelectSeq(mic_segments,
              LAMBDA mic_seg :
                  ~\E k \in 1..Len(speaker_segments) :
                      is_duplicate(mic_seg, speaker_segments[k], threshold))

\* key=lambda seg: (seg["start"], 0 if seg["source"] == "mic" else 1,
\*                  seg["end"])
\* Variant: the key has no source rank.
sort_key_unranked(seg) == <<seg.start, 0, seg.end>>
sort_key(seg) ==
    <<seg.start, IF seg.source = "mic" THEN 0 ELSE 1, seg.end>>

\* tuple comparison: x <= y
TupleLE(x, y) ==
    \/ x[1] < y[1]
    \/ x[1] = y[1] /\ x[2] < y[2]
    \/ x[1] = y[1] /\ x[2] = y[2] /\ x[3] <= y[3]

\* list.sort(key=...): stable, so a segment goes after every segment that
\* precedes it in the list and whose key is not larger.
\* Variant: a segment equal to one already placed is left out.
RECURSIVE sort_unique(_)
sort_unique(segments) ==
    IF segments = <<>> THEN <<>>
    ELSE LET n == Len(segments)
             seg == segments[n]
             before == sort_unique(SubSeq(segments, 1, n - 1))
             m == Len(before)
             at == Cardinality({ i \in 1..m :
                                   TupleLE(sort_key(before[i]), sort_key(seg)) })
         IN  IF \E i \in 1..m : before[i] = seg THEN before
             ELSE SubSeq(before, 1, at) \o <<seg>> \o SubSeq(before, at + 1, m)
RECURSIVE sort(_)
sort(segments) ==
    IF segments = <<>> THEN <<>>
    ELSE LET n == Len(segments)
             seg == segments[n]
             before == sort(SubSeq(segments, 1, n - 1))
             at == Cardinality({ i \in 1..(n - 1) :
                                   TupleLE(sort_key(before[i]), sort_key(seg)) })
         IN  SubSeq(before, 1, at) \o <<seg>> \o SubSeq(before, at + 1, n - 1)

\* prev["end"] = max(prev["end"], seg["end"])
\* Variant: a group ends where its last segment ends.
group_end_last(prev, seg) == seg.end
group_end(prev, seg) == IF prev.end >= seg.end THEN prev.end ELSE seg.end

\* The grouping loop of merge_source_segments.
RECURSIVE group(_, _)
group(grouped, segments) ==
    IF segments = <<>> THEN grouped
    ELSE LET seg == Head(segments)
             prev == grouped[Len(grouped)]
         IN  IF grouped # <<>> /\ seg.speaker = prev.speaker
             THEN group([grouped EXCEPT ![Len(grouped)] =
                            [prev EXCEPT
                                !.text = strip(prev.text \o <<" ">> \o seg.text),
                                !.end = group_end(prev, seg)]],
                        Tail(segments))
             ELSE group(Append(grouped, seg), Tail(segments))

\* tagged_mic of merge_source_segments when the two lists are joined
\* (offset, suppress, threshold: speaker_offset_seconds,
\* suppress_mic_bleed_duplicates, bleed_similarity_threshold)
kept_mic(mic_segments, speaker_segments, offset, suppress, threshold) ==
    LET tagged_mic == _tag_source_segments(mic_segments, "mic", 0)
        tagged_speaker ==
            _tag_source_segments(speaker_segments, "speaker", offset)
    IN  IF /\ suppress
           /\ tagged_mic # <<>>
           /\ tagged_speaker # <<>>
        THEN _suppress_mic_bleed_duplicates(tagged_mic, tagged_speaker,
                                            threshold)
        ELSE tagged_mic

\* merge_source_segments(mic_segments, speaker_segments,
\*     speaker_offset_seconds, group_consecutive,
\*     suppress_mic_bleed_duplicates, bleed_similarity_threshold)
merge_source_segments(mic_segments, speaker_segments, offset, grouping, suppress, threshold) ==
    LET tagged_mic ==
            kept_mic(mic_segments, speaker_segments, offset, suppress,
                     threshold)
        tagged_speaker ==
            _tag_source_segments(speaker_segments, "speaker", offset)
        merged_segments == sort(tagged_mic \o tagged_speaker)
    IN  IF grouping THEN group(<<>>, merged_segments) ELSE merged_segments

\* "\n".join(f"{seg['speaker']}: {seg['text']}" for seg in merged_segments)
RECURSIVE merged_text(_)
merged_text(segments) ==
    IF segments = <<>> THEN <<>>
    ELSE LET line == Head(segments).speaker \o <<":", " ">>
                         \o Head(segments).text
         IN  IF Len(segments) = 1 THEN line
             ELSE line \o <<"\n">> \o merged_text(Tail(segments))

\* duration = max(mic_result.duration,
\*                speaker_result.duration + max(0.0, speaker_offset_seconds))
\* Variant: the offset is added as it is.
merged_duration_unclamped(mic_duration, speaker_duration, offset) ==
    IF mic_duration >= speaker_duration + offset THEN mic_duration
    ELSE speaker_duration + offset
merged_duration(mic_duration, speaker_duration, offset) ==
    LET shift == IF offset > 0 THEN offset ELSE 0
    IN  IF mic_duration >= speaker_duration + shift THEN mic_duration
        ELSE speaker_duration + shift

\* The segments merge_source_segments is called with: a text may be blank
\* (the function strips it itself), and a segment starts at or after zero and
\* ends at or after its start.
Texts == { <<" ">>, <<"a", "b">>, <<"a", "c">>,
           <<"c", " ", "a", "B">> }
SegmentTimes == { <<0, 2>>, <<1, 1>> }
Segments ==
    { [start |-> t[1], end |-> t[2], text |-> x] :
          t \in SegmentTimes, x \in Texts }
RECURSIVE SegmentLists(_)
SegmentLists(n) ==
    IF n = 0 THEN { <<>> }
    ELSE SegmentLists(n - 1) \cup
         { Append(l, seg) : l \in { l \in SegmentLists(n - 1) : Len(l) = n - 1 },
                            seg \in Segments }

\* offset_correction_seconds of session.json, as the pipelines pass it on
Offsets == {-2, 1}
\* mic_bleed_similarity_threshold: the default 0.62, and one half
Thresholds == { Frac(62, 100), Frac(1, 2) }
\* TranscriptionResult.duration of the two transcriptions
Durations == 1..2

\* The arguments of one call: two transcriptions, of which at most one has
\* as many as MaxSegments segments.
Calls ==
    { c \in [mic_segments : SegmentLists(MaxSegments),
             speaker_segments : SegmentLists(MaxSegments),
             speaker_offset_seconds : Offsets,
             group_consecutive : BOOLEAN,
             suppress_mic_bleed_duplicates : BOOLEAN,
             bleed_similarity_threshold : Thresholds] :
        /\ Len(c.mic_segments) + Len(c.speaker_segments) <= MaxSegments + 1
        /\ ~c.suppress_mic_bleed_duplicates =>
               c.bleed_similarity_threshold = Frac(62, 100) }

MergeInit ==
    /\ Constructed({Threaded})
    /\ speaker = FALSE
    /\ ThreadsIdle
    /\ NoPipeline
    /\ call \in Calls
    /\ merged = NotCalled
    /\ NoScreen /\ NoNotes

\* merge_source_segments(...) called on its own
merge_source_segments_call ==
    /\ merged.op = "None"
    /\ merged' =
           [NotCalled EXCEPT
               !.op = "merge_source_segments",
               !.kept = kept_mic(call.mic_segments, call.speaker_segments,
                                 call.speaker_offset_seconds,
                                 call.suppress_mic_bleed_duplicates,
                                 call.bleed_similarity_threshold),
               !.segments =
                   merge_source_segments(call.mic_segments,
                                         call.speaker_segments,
                                         call.speaker_offset_seconds,
                                         call.group_consecutive,
                                         call.suppress_mic_bleed_duplicates,
                                         call.bleed_similarity_threshold)]
    /\ UNCHANGED <<session, platform, history, threads, pipeline, call, screen,
                   noting>>

\* build_merged_transcription_result(mic_result, speaker_result, ...): the
\* segments, the text and the duration of the result.
build_merged_transcription_result ==
    /\ merged.op = "None"
    /\ \E mic_duration \in Durations, speaker_duration \in Durations :
        LET merged_segments ==
                merge_source_segments(call.mic_segments,
                                      call.speaker_segments,
                                      call.speaker_offset_seconds,
                                      call.group_consecutive,
                                      call.suppress_mic_bleed_duplicates,
                                      call.bleed_similarity_threshold)
        IN  merged' =
                [op |-> "build_merged_transcription_result",
                 segments |-> merged_segments,
                 kept |-> kept_mic(call.mic_segments, call.speaker_segments,
                                   call.speaker_offset_seconds,
                                   call.suppress_mic_bleed_duplicates,
                                   call.bleed_similarity_threshold),
                 text |-> merged_text(merged_segments),
                 mic_duration |-> mic_duration,
                 speaker_duration |-> speaker_duration,
                 duration |-> merged_duration(mic_duration, speaker_duration,
                                              call.speaker_offset_seconds)]
    /\ UNCHANGED <<session, platform, history, threads, pipeline, call, screen,
                   noting>>

MergeNext ==
    \/ merge_source_segments_call
    \/ build_merged_transcription_result

MergeSpec == MergeInit /\ [][MergeNext]_vars

\* ---------------------------------------------------------------- properties

SingleLayout == {"<ts>.wav"}
DualLayout == {"<ts>/mic.wav", "<ts>/speaker.wav", "<ts>/session.json"}

\* The state right after a stop that saved, and what that stop wrote.
StopSaved == lastOp = "_stop_and_save" /\ result = "Saved"
LastSave == save_dir[Len(save_dir)]

\* The mic (speaker) waveforms concatenated by the first n saves, in order.
RECURSIVE SavedMic(_)
SavedMic(n) == IF n = 0 THEN <<>> ELSE SavedMic(n - 1) \o save_dir[n].mic_audio
RECURSIVE SavedSpeaker(_)
SavedSpeaker(n) ==
    IF n = 0 THEN <<>> ELSE SavedSpeaker(n - 1) \o save_dir[n].speaker_audio

\* wav is the written form of audio, followed by nothing but zero samples.
ZeroExtends(wav, audio) ==
    /\ Len(wav) >= Len(audio)
    /\ SubSeq(wav, 1, Len(audio)) = _to_int16(audio)
    /\ \A i \in (Len(audio) + 1)..Len(wav) : wav[i] = 0

Max(a, b) == IF a >= b THEN a ELSE b

\* C1: no data loss on device switch.  The mic waveform that a stop
\* concatenates holds every block the mic callback received, before and
\* after any switch_mic, each once and in arrival order.
C1_NoDataLossOnSwitch ==
    StopSaved => SavedMic(Len(save_dir)) = concatenate(mic_log)

\* A stop saved a mic waveform with samples of two different devices: blocks
\* arrived before and after a switch.
C1_Witness ==
    /\ StopSaved
    /\ \E i, j \in 1..Len(LastSave.mic_audio) :
        i < j /\ LastSave.mic_audio[i].dev # LastSave.mic_audio[j].dev

\* C2: no data loss on secondary toggle.  The speaker waveform written at
\* a stop holds every block the speaker callback appended, each once and in
\* arrival order, whatever enables and disables came in between.
C2_NoDataLossOnToggle ==
    (StopSaved /\ LastSave.files = DualLayout) =>
        /\ SavedSpeaker(Len(save_dir)) = concatenate(speaker_log)
        /\ SubSeq(LastSave.speaker_wav, 1, Len(LastSave.speaker_audio))
               = _to_int16(LastSave.speaker_audio)

\* The speaker source was enabled during the session, received blocks, was
\* disabled again, and the stop wrote its waveform.
C2_Witness ==
    /\ StopSaved
    /\ LastSave.files = DualLayout
    /\ enabled_ok_ever
    /\ ~speaker
    /\ Len(LastSave.speaker_audio) > 0

\* C3: the output layout is decided by the sticky ever-enabled flag.  A
\* stop writes the single file exactly when the speaker source was neither
\* requested at construction nor enabled successfully later, and the three
\* files of the session directory otherwise; the flag never goes back to
\* false.
C3_LayoutState ==
    StopSaved =>
        /\ LastSave.files =
               IF requested \/ enabled_ok_ever THEN DualLayout ELSE SingleLayout
        /\ LastSave.returns =
               IF requested \/ enabled_ok_ever THEN "<ts>/mic.wav" ELSE "<ts>.wav"
C3_StickyLayout ==
    /\ []C3_LayoutState
    /\ [][speaker_enabled_ever => speaker_enabled_ever']_vars

\* The speaker source was not requested, was enabled and disabled again, and
\* the stop still wrote the session directory.
C3_Witness ==
    /\ StopSaved
    /\ ~requested
    /\ ~speaker
    /\ speaker_enabled_ever
    /\ LastSave.files = DualLayout

\* C4: dual-file length alignment.  Both waveforms are written with the
\* length of the longer one; the longer is written as it is and the shorter
\* is followed by zero samples; nothing is cut.
C4_LengthAlignment ==
    (StopSaved /\ LastSave.files = DualLayout) =>
        LET n == Max(Len(LastSave.mic_audio), Len(LastSave.speaker_audio))
        IN  /\ Len(LastSave.mic_wav) = n
            /\ Len(LastSave.speaker_wav) = n
            /\ ZeroExtends(LastSave.mic_wav, LastSave.mic_audio)
            /\ ZeroExtends(LastSave.speaker_wav, LastSave.speaker_audio)

\* A dual save whose mic waveform was the shorter one, and not empty.
C4_Witness ==
    /\ StopSaved
    /\ LastSave.files = DualLayout
    /\ Len(LastSave.mic_audio) < Len(LastSave.speaker_audio)
    /\ \E i \in 1..Len(LastSave.mic_wav) : LastSave.mic_wav[i] # 0

\* C5: stop with no audio.  A stop of a recording session that finds the
\* mic buffer empty reports 'nothing recorded', writes nothing (also when
\* the speaker buffer holds data), leaves both streams closed and the
\* routing restored.  A restore the platform refused is not held against
\* the session.
C5_StopWithNoAudio ==
    [][(/\ lastOp' = "_stop_and_save"
        /\ phase = "recording"
        /\ mic_chunks = <<>>
        /\ ~restore_refused') =>
          /\ result' = "NoAudio"
          /\ save_dir' = save_dir
          /\ mic_stream' # "open"
          /\ speaker_stream' # "open"
          /\ (switched_ever => output_device' = initial_output)]_vars

\* C6: Stopped is terminal.  Once the session is stopped no operation opens
\* a stream, changes the routing, appends a block or writes a file.
C6_StoppedIsTerminal ==
    [][phase = "stopped" =>
          /\ mic_stream' # "open"
          /\ speaker_stream' # "open"
          /\ output_device' = output_device
          /\ mic_chunks' = mic_chunks
          /\ speaker_chunks' = speaker_chunks
          /\ save_dir' = save_dir]_vars

\* C7: routing restored at stop.  If the session ever switched the system
\* output routing, then after the stop of the recording session the routing
\* is the one that was current before the session switched it, whatever
\* the routing query answered.  A restore the platform refused is not held
\* against the session.
C7_RoutingRestoredAtStop ==
    [][(/\ lastOp' = "_stop_and_save"
        /\ phase = "recording"
        /\ switched_ever
        /\ ~restore_refused') =>
          output_device' = initial_output]_vars

\* C8: start aborts before any stream opens.  When the device does not
\* resolve, the loopback device is not found, or the routing switch fails,
\* start reports the error, opens no stream, lets no block in and leaves
\* the routing as it was.
C8_StartAbortsBeforeStreams ==
    lastOp = "start" =>
        /\ ~resolve_device(devices, mic_arg).ok => result = "ValueError"
        /\ (/\ resolve_device(devices, mic_arg).ok
            /\ requested
            /\ _find_blackhole_device(devices, blackhole_name) = None)
               => result = "BlackHoleNotFound"
        /\ result \in {"ValueError", "BlackHoleNotFound", "SwitchFailed"} =>
              /\ phase = "failed"
              /\ mic_stream = "None"
              /\ speaker_stream = "None"
              /\ mic_log = <<>>
              /\ speaker_log = <<>>
              /\ ~ENABLED _mic_callback
              /\ ~ENABLED _speaker_callback
              /\ output_device = initial_output

\* A start gave up because the routing switch failed.
C8_Witness == lastOp = "start" /\ result = "SwitchFailed"

\* C9: start leaks no routing change.  When the switch succeeded and a
\* stream then fails to open, the routing after the failed start is the
\* routing before the call.  A restore the platform refused is not held
\* against the session.
C9_FailedStartRestoresRouting ==
    (lastOp = "start" /\ result = "StreamError" /\ ~restore_refused) =>
        output_device = initial_output

\* C10: enable with the loopback device not found returns an error and
\* alters nothing: the active flag, the ever-enabled flag, the remembered
\* original routing, the routing, the streams and both buffers stay as
\* they were.
C10_EnableNotFoundAltersNothing ==
    [][(/\ lastOp' = "enable_speaker_capture"
        /\ ~speaker
        /\ _find_blackhole_device(devices, blackhole_name) = None) =>
          /\ result' = "BlackHoleNotFound"
          /\ UNCHANGED <<speaker, speaker_enabled_ever, original_output,
                         output_device, mic_stream, speaker_stream,
                         mic_chunks, speaker_chunks>>]_vars

\* An enable was refused because the loopback device is missing, on a
\* session that is recording.
C10_Witness ==
    /\ lastOp = "enable_speaker_capture"
    /\ result = "BlackHoleNotFound"
    /\ phase = "recording"

\* C11: enable rolls back on platform failure.  When the routing switch
\* fails, or the speaker stream fails to open after the switch, the call
\* returns an error, the routing is the one from before the call, the
\* source is inactive, no speaker stream is open and the ever-enabled flag
\* is unchanged.  A restore the platform refused is not held against the
\* session.
C11_EnableRollsBack ==
    [][(/\ lastOp' = "enable_speaker_capture"
        /\ phase = "recording"
        /\ result' \in {"SwitchFailed", "StreamError"}
        /\ ~restore_refused') =>
          /\ output_device' = output_device
          /\ ~speaker'
          /\ speaker_stream' # "open"
          /\ UNCHANGED speaker_enabled_ever]_vars

\* C12: enable on an active source is a no-op.  It returns success, opens
\* no second stream, leaves the routing alone and keeps the remembered
\* original routing: no field of the session and nothing on the platform
\* changes.
C12_EnableIdempotent ==
    [][(lastOp' = "enable_speaker_capture" /\ speaker) =>
          /\ result' = "None"
          /\ UNCHANGED <<session, platform>>]_vars

\* An enable came on a source that start had made active: no enable of this
\* session ever turned the source on, the stream is open and the original
\* routing is still remembered.
C12_Witness ==
    /\ lastOp = "enable_speaker_capture"
    /\ phase = "recording"
    /\ ~enabled_ok_ever
    /\ speaker
    /\ speaker_stream = "open"
    /\ original_output = Some(initial_output)

\* C13: disable on an inactive source is a no-op.  With the source inactive
\* (never enabled, after a failed enable, after an earlier disable) the call
\* closes no stream, makes no routing call and changes no flag.
C13_DisableIdempotent ==
    [][(/\ lastOp' = "disable_speaker_capture"
        /\ phase = "recording"
        /\ ~speaker) =>
          /\ ~restore_sets_output(original_output)
          /\ UNCHANGED <<speaker, speaker_enabled_ever, mic_stream,
                         speaker_stream, output_device>>]_vars

\* C14: disable on an active source closes the speaker stream, restores
\* the original routing and marks the source inactive; the ever-enabled
\* flag, both buffers, both first-block times, the mic stream and the mic
\* device stay as they were.  A restore the platform refused is not held
\* against the session.
C14_DisableEffect ==
    [][(/\ lastOp' = "disable_speaker_capture"
        /\ phase = "recording"
        /\ speaker
        /\ ~restore_refused') =>
          /\ speaker_stream' # "open"
          /\ output_device' = initial_output
          /\ ~speaker'
          /\ UNCHANGED <<speaker_enabled_ever, mic_chunks, speaker_chunks,
                         mic_first_adc_time, speaker_first_adc_time,
                         mic_stream, device_idx>>]_vars

\* C15: a failed switch_mic is surfaced as a result.  When the stream on
\* the new device fails to open, the caller gets an error value; nothing is
\* raised past the operation.
C15_FailedSwitchIsAResult ==
    (lastOp = "switch_mic" /\ phase = "recording") => result \notin Exceptions

\* C16: cancelling tears down as a stop does.  Cancelling a recording
\* session closes every open stream and restores the routing the way
\* _stop_and_save does from the same state (the remembered original is set
\* again and forgotten), and writes nothing below the save directory.
C16_CancelTearsDown ==
    [][lastOp' = "_do_cancel" =>
          /\ mic_stream' = "None"
          /\ speaker_stream' = "None"
          /\ output_device' \in
                 {restored_output(original_output, output_device, ok) :
                      ok \in BOOLEAN}
          /\ ~restore_refused' =>
                 output_device' =
                     restored_output(original_output, output_device, TRUE)
          /\ original_output' = None
          /\ save_dir' = save_dir]_vars

\* A session that had switched the routing and captured blocks was
\* cancelled: the routing is back and nothing was written.
C16_Witness ==
    /\ lastOp = "_do_cancel"
    /\ switched_ever
    /\ mic_log # <<>>
    /\ speaker_log # <<>>
    /\ output_device = initial_output
    /\ save_dir = <<>>

\* C20: capture continues on subsystem faults.  A callback invoked with an
\* overflow/underflow status still appends its block; the status is only
\* logged: the streams stay as they were, the session stays in its phase
\* and nothing but the source's buffer and first-block time changes.
C20_CaptureContinuesOnStatus ==
    [][(lastOp' \in {"_mic_callback", "_speaker_callback"}
        /\ result' = "StatusLogged") =>
          /\ lastOp' = "_mic_callback" =>
                /\ mic_chunks' = Append(mic_chunks, mic_log'[Len(mic_log')])
                /\ Len(mic_log') = Len(mic_log) + 1
                /\ UNCHANGED speaker_chunks
          /\ lastOp' = "_speaker_callback" =>
                /\ speaker_chunks' =
                       Append(speaker_chunks, speaker_log'[Len(speaker_log')])
                /\ Len(speaker_log') = Len(speaker_log) + 1
                /\ UNCHANGED mic_chunks
          /\ result' \notin Exceptions
          /\ UNCHANGED <<mic_stream, speaker_stream, phase, speaker,
                         speaker_enabled_ever, original_output, device_idx,
                         blackhole_idx, platform>>]_vars

\* A mic block came with a status while the session was recording, it is
\* the last block of the buffer, an earlier block is kept too, and the mic
\* stream is still open.
C20_Witness ==
    /\ lastOp = "_mic_callback"
    /\ result = "StatusLogged"
    /\ phase = "recording"
    /\ mic_stream = "open"
    /\ Len(mic_chunks) = 2
    /\ mic_chunks[2] = mic_log[Len(mic_log)]

\* A callback is inside its "with self._lock" block; the stop is inside its
\* own, where it tests, concatenates and clears the buffers.
Appending(src) == pc[src] \in {"locked", "appended"}
Draining == pc["main"] \in {"checking", "concat_mic", "concat_speaker"}

\* C18: append and drain are mutually exclusive.  Under every interleaving
\* of the callbacks' steps with the steps of a stop, the stop never tests or
\* concatenates a buffer while a callback is appending, and every block
\* whose append completed before the drain is in the concatenated waveform:
\* what was concatenated, followed by what is still buffered, is every
\* block appended so far.
C18_AppendDrainExclusive ==
    /\ \A src \in Sources : ~(Appending(src) /\ Draining)
    /\ pc["main"] \in {"concat_speaker", "writing", "done"} =>
           locals.mic_audio \o concatenate(mic_chunks) = concatenate(mic_log)
    /\ pc["main"] \in {"writing", "done"} =>
           locals.speaker_audio \o concatenate(speaker_chunks)
               = concatenate(speaker_log)

\* The stop is concatenating the mic buffer while the mic callback has a
\* block in hand and waits for the lock.
C18_Witness ==
    /\ pc["main"] = "concat_mic"
    /\ pc["mic"] = "waiting"
    /\ _lock = "main"
    /\ mic_chunks # <<>>

\* C19: minimal lock scope.  The lock is held only inside a callback's
\* append and inside the drain of a stop; the main thread never holds it
\* in a step that opens, stops or closes a stream, changes the routing or
\* writes a file.
C19_LockHolder ==
    /\ _lock \in Sources => Appending(_lock)
    /\ _lock = "main" => Draining
    /\ _lock = "free" =>
           ~Draining /\ \A src \in Sources : ~Appending(src)
C19_MinimalLockScope ==
    /\ []C19_LockHolder
    /\ [][(\/ mic_stream' # mic_stream
           \/ speaker_stream' # speaker_stream
           \/ output_device' # output_device
           \/ save_dir' # save_dir) =>
             (_lock # "main" /\ _lock' # "main")]_vars

\* The main thread stopped the streams and restored the routing while the
\* mic callback held the lock.
C19_Witness ==
    /\ _lock = "mic"
    /\ pc["main"] = "restored"
    /\ mic_stream = "None"
    /\ switched_ever
    /\ output_device = initial_output

\* The audio of the recording, as against its session.json descriptor.
AudioOf(j) == {cleanup_targets(j)[k] : k \in 1..Len(cleanup_targets(j))}

\* C17: audio is deleted only after the transcript is persisted.  An audio
\* file goes away only in a step in which every transcript handed to
\* cleanup_audio exists and is non-empty; where cleanup_audio returned False
\* the audio file is still in place; and as long as saving a transcript
\* failed or has not run, every audio file is there.
C17_AudioKept ==
    /\ \A a \in job.refused : audio_files[a] = "full"
    /\ \A a \in job.removed : audio_files[a] = "missing"
    /\ (job.at \in {"transcribe", "save_transcript", "exit"}
        \/ job.results = <<>>) =>
           \A a \in AudioOf(job) : audio_files[a] = "full"
C17_DeleteAfterTranscript ==
    /\ []C17_AudioKept
    /\ [][\A a \in AudioOf(job) :
             (audio_files[a] = "full" /\ audio_files'[a] = "missing") =>
                 /\ job.results # <<>>
                 /\ \A k \in 1..Len(job.results) :
                        transcripts[job.results[k]] = "full"]_vars

\* Two transcripts were saved for a session directory and one of them was
\* emptied before the cleanup: both audio files were refused and are kept.
C17_Witness ==
    /\ job.at = "done"
    /\ job.dual
    /\ Len(job.results) = 2
    /\ \E k \in 1..2 : transcripts[job.results[k]] = "empty"
    /\ job.refused = {"mic.wav", "speaker.wav"}
    /\ audio_files["mic.wav"] = "full"

\* ------------------------------------------------------ merge properties

\* A merge call has returned; what it returned.
Called == merged.op # "None"
Output == merged.segments
Range(seq) == { seq[i] : i \in 1..Len(seq) }

\* One input segment as _tag_source_segments hands it on.
Tagged(seg, source) ==
    [start |-> IF source = "mic" THEN seg.start
               ELSE Max(0, seg.start + call.speaker_offset_seconds),
     end |-> IF source = "mic" THEN seg.end
             ELSE Max(Max(0, seg.start + call.speaker_offset_seconds),
                      seg.end + call.speaker_offset_seconds),
     text |-> strip(seg.text),
     source |-> source,
     speaker |-> IF source = "mic" THEN YOU ELSE THEM]
Blank(seg) == \A i \in 1..Len(seg.text) : seg.text[i] = " "

\* C21: merge's output is sorted non-decreasing by shifted start time, and
\* among segments with equal start every mic-sourced segment precedes every
\* secondary-sourced segment, whatever the offset and the flags.
C21_MergeChronological ==
    Called =>
        \A i \in 1..Len(Output), j \in 1..Len(Output) :
            i < j =>
                /\ Output[i].start <= Output[j].start
                /\ Output[i].start = Output[j].start =>
                       ~(Output[i].source = "speaker"
                         /\ Output[j].source = "mic")

\* A shifted secondary segment ties with a mic segment that ends later, and
\* comes after it; another secondary segment comes before a mic segment.
C21_Witness ==
    /\ Called
    /\ call.speaker_offset_seconds # 0
    /\ ~call.group_consecutive
    /\ \E i \in 1..Len(Output), j \in 1..Len(Output) :
        /\ i < j
        /\ Output[i].source = "mic"
        /\ Output[j].source = "speaker"
        /\ Output[i].start = Output[j].start
        /\ Output[i].end > Output[j].end
    /\ Len(call.mic_segments) = 2

\* C22: every tagged segment has start >= 0 and end >= start, also under a
\* negative offset larger than the segment's start; the offset is added to
\* the secondary source's segments only, mic segments keep their times.
C22_ShiftBounds ==
    Called =>
        /\ \A k \in 1..Len(Output) :
               Output[k].start >= 0 /\ Output[k].end >= Output[k].start
        /\ \A k \in 1..Len(merged.kept) :
               \E m \in Range(call.mic_segments) :
                   /\ merged.kept[k].text = strip(m.text)
                   /\ merged.kept[k].start = m.start
                   /\ merged.kept[k].end = m.end
        /\ ~call.group_consecutive =>
               \A k \in 1..Len(Output) :
                   Output[k].source = "speaker" =>
                       \E s \in Range(call.speaker_segments) :
                           LET off == call.speaker_offset_seconds IN
                           /\ Output[k].text = strip(s.text)
                           /\ s.start + off >= 0 =>
                                  Output[k].start = s.start + off
                           /\ s.start + off < 0 => Output[k].start = 0
                           /\ s.end + off >= Output[k].start =>
                                  Output[k].end = s.end + off

\* The offset takes a secondary segment below zero: it starts at zero in the
\* output, next to a mic segment that kept its times.
C22_Witness ==
    /\ Called
    /\ ~call.group_consecutive
    /\ \E s \in Range(call.speaker_segments) :
        /\ ~Blank(s)
        /\ s.start + call.speaker_offset_seconds < 0
        /\ s.end + call.speaker_offset_seconds < 0
        /\ Tagged(s, "speaker") \in Range(Output)
        /\ Tagged(s, "speaker").end = 0
    /\ \E k \in 1..Len(Output) :
        Output[k].source = "mic" /\ Output[k].start = 1

\* C23: with suppression on, a mic segment (with text) is absent from the
\* output exactly when some secondary segment's text scores at or above the
\* threshold against it; one whose text equals a secondary segment's text is
\* dropped, and secondary segments are never dropped.
C23_BleedSuppression ==
    (Called /\ call.suppress_mic_bleed_duplicates) =>
        /\ \A m \in Range(call.mic_segments) :
               ~Blank(m) =>
                   LET scored ==
                           \E s \in Range(call.speaker_segments) :
                               FracGE(_text_similarity(m.text, s.text),
                                      call.bleed_similarity_threshold)
                       same ==
                           \E s \in Range(call.speaker_segments) :
                               strip(s.text) = strip(m.text)
                   IN  /\ Tagged(m, "mic") \notin Range(merged.kept) <=> scored
                       /\ same => Tagged(m, "mic") \notin Range(merged.kept)
                       /\ ~call.group_consecutive =>
                              (Tagged(m, "mic") \notin Range(Output) <=> scored)
        /\ ~call.group_consecutive =>
               \A s \in Range(call.speaker_segments) :
                   ~Blank(s) => Tagged(s, "speaker") \in Range(Output)

\* One mic segment scores exactly the threshold and is dropped, another one
\* scores below it against every secondary segment and is kept.
C23_Witness ==
    /\ Called
    /\ call.suppress_mic_bleed_duplicates
    /\ ~call.group_consecutive
    /\ call.bleed_similarity_threshold = Frac(1, 2)
    /\ Len(call.speaker_segments) = 1
    /\ Len(call.mic_segments) = 2
    /\ LET s == call.speaker_segments[1]
           dropped == call.mic_segments[1]
           kept == call.mic_segments[2]
       IN  /\ _text_similarity(dropped.text, s.text) = Frac(2, 4)
           /\ _text_similarity(kept.text, s.text) = Frac(2, 6)
           /\ Tagged(dropped, "mic") \notin Range(Output)
           /\ Tagged(kept, "mic") \in Range(Output)
           /\ Tagged(s, "speaker") \in Range(Output)

\* The indices of the mic segments (with text) that a call dropped.
Dropped(c, kept) ==
    { i \in 1..Len(c.mic_segments) :
        /\ ~Blank(c.mic_segments[i])
        /\ \A k \in 1..Len(kept) :
               \/ kept[k].text # strip(c.mic_segments[i].text)
               \/ kept[k].start # c.mic_segments[i].start
               \/ kept[k].end # c.mic_segments[i].end }
\* The same segments at other times.
Retimed(segments, times) ==
    [i \in 1..Len(segments) |->
        [start |-> times[i][1], end |-> times[i][2],
         text |-> segments[i].text]]
\* The calls that differ from the one made in the segments' times or in the
\* offset only.
OtherTimes ==
    { [call EXCEPT !.mic_segments = Retimed(call.mic_segments, tm),
                   !.speaker_segments = Retimed(call.speaker_segments, ts),
                   !.speaker_offset_seconds = off] :
          tm \in [1..Len(call.mic_segments) -> SegmentTimes],
          ts \in [1..Len(call.speaker_segments) -> SegmentTimes],
          off \in Offsets }

\* C24: which mic segments are dropped depends on the texts and the
\* threshold only: a call that differs in the segments' times or in the
\* offset drops the same mic segments.
C24_NoTimeBound ==
    Called =>
        LET dropped == Dropped(call, merged.kept) IN
        \A c \in OtherTimes :
            Dropped(c, kept_mic(c.mic_segments, c.speaker_segments,
                                c.speaker_offset_seconds,
                                c.suppress_mic_bleed_duplicates,
                                c.bleed_similarity_threshold)) = dropped

\* A mic segment is dropped though the only secondary segment starts two
\* time units after it, as far apart as the times go.
C24_Witness ==
    /\ Called
    /\ call.suppress_mic_bleed_duplicates
    /\ Len(call.speaker_segments) = 1
    /\ Dropped(call, merged.kept) # {}
    /\ \A i \in Dropped(call, merged.kept) :
           Tagged(call.speaker_segments[1], "speaker").start
               - call.mic_segments[i].start = 2

\* The texts of a run joined by single spaces, its earliest start and its
\* latest end.
RECURSIVE Joined(_)
Joined(run) ==
    IF Len(run) = 1 THEN run[1].text
    ELSE Joined(SubSeq(run, 1, Len(run) - 1)) \o <<" ">> \o run[Len(run)].text
Earliest(run) ==
    CHOOSE t \in { run[i].start : i \in 1..Len(run) } :
        \A i \in 1..Len(run) : t <= run[i].start
Latest(run) ==
    CHOOSE t \in { run[i].end : i \in 1..Len(run) } :
        \A i \in 1..Len(run) : t >= run[i].end
\* The sorted list before grouping.
Ungrouped ==
    merge_source_segments(call.mic_segments, call.speaker_segments,
                          call.speaker_offset_seconds, FALSE,
                          call.suppress_mic_bleed_duplicates,
                          call.bleed_similarity_threshold)
\* Its maximal runs of segments with one speaker label, in order.
RECURSIVE RunsOf(_)
RunsOf(segments) ==
    IF segments = <<>> THEN <<>>
    ELSE LET rest == RunsOf(Tail(segments)) IN
         IF rest # <<>> /\ rest[1][1].speaker = Head(segments).speaker
         THEN << <<Head(segments)>> \o rest[1] >> \o Tail(rest)
         ELSE << <<Head(segments)>> >> \o rest

\* C25: with grouping on, no two adjacent output segments have the same
\* speaker label; each output segment stands for one maximal run of
\* same-speaker segments of the sorted list: its text is the run's texts
\* joined by single spaces, its start the earliest start and its end the
\* latest end of the run.
C25_ConsecutiveGrouping ==
    (Called /\ call.group_consecutive) =>
        LET runs == RunsOf(Ungrouped) IN
        /\ \A k \in 1..(Len(Output) - 1) :
               Output[k].speaker # Output[k + 1].speaker
        /\ Len(Output) = Len(runs)
        /\ \A k \in 1..Len(Output) :
               /\ Output[k].speaker = runs[k][1].speaker
               /\ Output[k].text = Joined(runs[k])
               /\ Output[k].start = Earliest(runs[k])
               /\ Output[k].end = Latest(runs[k])

\* A run of two segments whose first one ends last, followed by a segment of
\* the other speaker.
C25_Witness ==
    /\ Called
    /\ call.group_consecutive
    /\ Len(Output) = 2
    /\ LET runs == RunsOf(Ungrouped) IN
        /\ Len(runs[1]) = 2
        /\ runs[1][1].end > runs[1][2].end
        /\ Output[1].end = runs[1][1].end

\* C27: the merged duration is max(micDuration, secondaryDuration +
\* max(0, offset)); it is never smaller than either input duration, and a
\* negative offset does not shorten it.
C27_MergedDuration ==
    merged.op = "build_merged_transcription_result" =>
        /\ merged.duration =
               Max(merged.mic_duration,
                   merged.speaker_duration
                       + Max(0, call.speaker_offset_seconds))
        /\ merged.duration >= merged.mic_duration
        /\ merged.duration >= merged.speaker_duration

\* The secondary transcription is the longer one and the offset is negative
\* enough to take it below the mic's duration.
C27_Witness ==
    /\ merged.op = "build_merged_transcription_result"
    /\ call.speaker_offset_seconds < 0
    /\ merged.speaker_duration > merged.mic_duration
    /\ merged.speaker_duration + call.speaker_offset_seconds
           < merged.mic_duration
    /\ merged.duration = merged.speaker_duration

\* str.split("\n")
RECURSIVE SplitLines(_, _)
SplitLines(text, line) ==
    IF text = <<>> THEN <<line>>
    ELSE IF Head(text) = "\n" THEN <<line>> \o SplitLines(Tail(text), <<>>)
    ELSE SplitLines(Tail(text), Append(line, Head(text)))

\* C28: every output segment has non-empty text, one of the two source
\* identifiers, and the label YOU exactly for the mic and THEM exactly for
\* the secondary source; a segment whose text is empty or whitespace does
\* not appear; the merged text has one line "<label>: <text>" per output
\* segment, in output order.
C28_TaggedWellFormed ==
    Called =>
        /\ \A k \in 1..Len(Output) :
               /\ Output[k].text # <<>>
               /\ strip(Output[k].text) = Output[k].text
               /\ Output[k].source \in {"mic", "speaker"}
               /\ Output[k].speaker = YOU <=> Output[k].source = "mic"
               /\ Output[k].speaker = THEM <=> Output[k].source = "speaker"
        /\ ~call.group_consecutive =>
               /\ \A k \in 1..Len(Output) :
                      \E seg \in Range(IF Output[k].source = "mic"
                                       THEN call.mic_segments
                                       ELSE call.speaker_segments) :
                          ~Blank(seg) /\ Tagged(seg, Output[k].source) = Output[k]
               /\ Len(Output) <=
                      Cardinality({ i \in 1..Len(call.mic_segments) :
                                      ~Blank(call.mic_segments[i]) })
                      + Cardinality({ i \in 1..Len(call.speaker_segments) :
                                      ~Blank(call.speaker_segments[i]) })
        /\ merged.op = "build_merged_transcription_result" =>
               IF Output = <<>> THEN merged.text = <<>>
               ELSE SplitLines(merged.text, <<>>) =
                        [k \in 1..Len(Output) |->
                            Output[k].speaker \o <<":", " ">> \o Output[k].text]

\* A whitespace segment was given next to segments of both sources, and the
\* result has a line for each of the two that have text.
C28_Witness ==
    /\ merged.op = "build_merged_transcription_result"
    /\ \E seg \in Range(call.mic_segments) : Blank(seg)
    /\ Len(call.mic_segments) = 2
    /\ Len(call.speaker_segments) = 1
    /\ Len(Output) = 2
    /\ Output[1].speaker = THEM
    /\ Output[2].speaker = YOU
    /\ Len(SplitLines(merged.text, <<>>)) = 2

\* ------------------------------------------------ inter-source offset

\* What the callback of one source received, in order of arrival.
Received(source) == SelectSeq(adc_log, LAMBDA r : r.source = source)
\* The ADC time of the very first block of a source (None: the source got
\* no block, or its first block came without an ADC time), and of its first
\* block that came with one.
FirstBlockTime(source) ==
    IF Received(source) = <<>> THEN None ELSE Received(source)[1].adc_time
FirstTimedBlock(source) ==
    LET with_time == SelectSeq(Received(source), LAMBDA r : r.adc_time # None)
    IN  IF with_time = <<>> THEN None ELSE with_time[1].adc_time
DualSaved == StopSaved /\ LastSave.files = DualLayout

\* C26, as stated: in a dual-source stop the persisted
\* offset_correction_seconds is the secondary source's first-block timestamp
\* minus the mic's when both have one, and zero otherwise, the first-block
\* timestamp being that of the very first block the callback received.
C26_OffsetIsDifference ==
    DualSaved =>
        LastSave.offset_correction_seconds =
            IF FirstBlockTime("mic") # None /\ FirstBlockTime("speaker") # None
            THEN FirstBlockTime("speaker")[1] - FirstBlockTime("mic")[1]
            ELSE 0

\* C26, amended: the persisted offset is that difference rounded to four
\* decimal places (a multiple of 10 time units at most 5 units away from
\* it), taken between the first blocks of the two sources that came with an
\* ADC time; it is zero when a source has no such block.
C26_OffsetRounded ==
    DualSaved =>
        LET offset == LastSave.offset_correction_seconds
            mic_t == FirstTimedBlock("mic")
            spk_t == FirstTimedBlock("speaker")
        IN  IF mic_t # None /\ spk_t # None
            THEN /\ offset % 10 = 0
                 /\ offset - (spk_t[1] - mic_t[1]) \in -5..5
            ELSE offset = 0

\* The mic received two blocks before the secondary source received its
\* first one: the difference of 6 units is persisted as 10.
C26_Witness ==
    /\ DualSaved
    /\ Len(Received("mic")) = 2
    /\ FirstTimedBlock("mic") = Some(AdcTick)
    /\ FirstTimedBlock("speaker") = Some(3 * AdcTick)
    /\ LastSave.offset_correction_seconds = 10

\* ---------------------------------------------------- device resolution

\* The selector is the decimal index of an input device of the list.
ValidIndex ==
    /\ mic_arg # None
    /\ IsInt(mic_arg[1])
    /\ IntOf(mic_arg[1]) < Len(devices)
    /\ devices[IntOf(mic_arg[1]) + 1].in > 0
\* The selector is contained in the name of an input device.
NamesADevice ==
    /\ mic_arg # None
    /\ \E i \in 1..Len(devices) :
        /\ devices[i].in > 0
        /\ Contains(Lower(devices[i].name), Lower(mic_arg[1]))

\* C30: start resolves a null selector to None (the system default) and a
\* valid input-device index to itself; an integer selector that is not a
\* valid input-device index raises ValueError and is resolved to no device;
\* a name contained in no input device's name raises ValueError.
C30_ResolveRejectsBadSelectors ==
    lastOp = "start" =>
        /\ mic_arg = None => (result # "ValueError" /\ device_idx = None)
        /\ ValidIndex =>
               /\ result # "ValueError"
               /\ device_idx = Some(IntOf(mic_arg[1]))
        /\ (mic_arg # None /\ IsInt(mic_arg[1]) /\ ~ValidIndex) =>
               (result = "ValueError" /\ device_idx = None)
        /\ (mic_arg # None /\ ~IsInt(mic_arg[1]) /\ ~NamesADevice) =>
               result = "ValueError"

\* ------------------------------------------------- owner-only artifacts

\* C29: every audio file and session descriptor that stop() writes has
\* owner-only permissions from the moment it exists: no file of a save, in
\* progress or finished, is on disk with wider permissions.
C29_OwnerOnlyArtifacts ==
    /\ \A k \in 1..Len(locals.on_disk) : locals.on_disk[k].mode = "0600"
    /\ \A k \in 1..Len(save_dir) : save_dir[k].mode = "0600"

\* --------------------------------------------------- pipeline properties

\* Either pipeline has looked for a session around the audio file in this
\* step.
SessionLoaded == job.at = "start" /\ job'.at \in {"transcribe", "done"}

\* The speaker's file and the descriptor exist beside the audio file.
Beside ==
    /\ audio_files["speaker.wav"] # "missing"
    /\ audio_files["session.json"] # "missing"

\* The description names the three files of the session directory.
Describes(dual_session, audio_path) ==
    /\ dual_session.mic_audio_path = audio_path
    /\ dual_session.speaker_audio_path = "speaker.wav"
    /\ dual_session.session_json_path = "session.json"

\* The descriptor parses and has the offset field.
HasOffsetField ==
    /\ session_json.json
    /\ "offset_correction_seconds" \in DOMAIN session_json.meta

\* C31 as stated: a description is returned exactly for an audio file named
\* mic.wav with speaker.wav and session.json beside it, and its offset is
\* the descriptor's offset_correction_seconds, or 0.0 when the descriptor
\* does not parse or lacks the field.
C31_DualDetection ==
    [][SessionLoaded =>
         LET d == job'.dual_session IN
         /\ (d # None) <=> (job.audio_path = "mic.wav" /\ Beside)
         /\ d # None =>
              /\ Describes(d[1], job.audio_path)
              /\ JsonNumber(d[1].speaker_offset_seconds) =
                     IF HasOffsetField
                     THEN session_json.meta.offset_correction_seconds
                     ELSE JsonNumber(0)]_vars

\* C31, amended: the name is compared without regard to letter case, and
\* the offset is 0.0 as well when the field holds no number.
C31_DualDetectionAnyCase ==
    [][SessionLoaded =>
         LET d == job'.dual_session IN
         /\ (d # None) <=> (job.audio_path \in {"mic.wav", "MIC.WAV"} /\ Beside)
         /\ d # None =>
              /\ Describes(d[1], job.audio_path)
              /\ JsonNumber(d[1].speaker_offset_seconds) =
                     IF /\ HasOffsetField
                        /\ session_json.meta.offset_correction_seconds.type
                               = "number"
                     THEN session_json.meta.offset_correction_seconds
                     ELSE JsonNumber(0)
         /\ job'.dual = (d # None)]_vars

\* A session was found around MIC.WAV, with the offset a stop persisted.
C31_Witness ==
    /\ job.at = "transcribe"
    /\ job.audio_path = "MIC.WAV"
    /\ job.dual_session # None
    /\ session_json = dumps(metadata(30))
    /\ job.dual_session[1].speaker_offset_seconds = 30

\* The worker reported an error and none of the recording's files is gone.
ErrorKeepsFiles ==
    job.result_file = "ERROR" =>
        /\ job.removed = {}
        /\ audio_files[job.audio_path] = "full"
        /\ job.dual => Beside

\* The worker reported OK after a transcript was saved and the cleanup was
\* attempted on every audio file.
OkAfterCleanup ==
    job.result_file = "OK" =>
        /\ job.results # <<>>
        /\ job.removed \cup job.refused = AudioOf(job)

\* An audio file or the descriptor goes away only in the cleanup, which
\* comes after a transcript was saved and before any result is written.
DeletionInCleanup ==
    \A a \in AudioPaths :
        (job.results = <<>> \/ job.at \in {"start", "transcribe",
                                            "save_transcript", "cleanup"}) =>
            (audio_files[a] = "missing" => a \notin AudioOf(job) /\
                 (a = "session.json" => ~job.dual))

\* The descriptor of a session is gone only with both audio files.
DescriptorLast ==
    (job.dual /\ audio_files["session.json"] = "missing") =>
        \A a \in AudioOf(job) : audio_files[a] = "missing"

Count(seq, x) == Cardinality({ i \in 1..Len(seq) : seq[i] = x })

\* The input segments of one source that have text, as they are handed on.
TaggedInputs(segments, source) ==
    [i \in 1..Len(SelectSeq(segments, LAMBDA seg : ~Blank(seg))) |->
        Tagged(SelectSeq(segments, LAMBDA seg : ~Blank(seg))[i], source)]

\* C39: with suppression and grouping off the output holds one segment for
\* each input segment that has text, with its text and source, none lost and
\* none duplicated; with suppression on every secondary segment that has
\* text is still there, as often as it came in, and what is missing are mic
\* segments only.
C39_Conserved ==
    (Called /\ ~call.group_consecutive) =>
        LET mic == TaggedInputs(call.mic_segments, "mic")
            spk == TaggedInputs(call.speaker_segments, "speaker")
        IN  /\ Len(Output) <= Len(mic) + Len(spk)
            /\ \A x \in Range(Output) : x \in Range(mic) \cup Range(spk)
            /\ \A x \in Range(spk) : Count(Output, x) = Count(spk, x)
            /\ \A x \in Range(mic) :
                   IF call.suppress_mic_bleed_duplicates
                   THEN Count(Output, x) \in {0, Count(mic, x)}
                   ELSE Count(Output, x) = Count(mic, x)
            /\ ~call.suppress_mic_bleed_duplicates =>
                   Len(Output) = Len(mic) + Len(spk)

\* C39: a merge conserves the segments and leaves its input lists as they
\* were.
C39_MergeConserves ==
    /\ []C39_Conserved
    /\ [][merged' # merged => call' = call]_vars

\* Two equal mic segments and a secondary segment, all with text, merged
\* without suppression: the mic segment is there twice.
C39_Witness ==
    /\ Called
    /\ ~call.group_consecutive
    /\ ~call.suppress_mic_bleed_duplicates
    /\ Len(call.mic_segments) = 2
    /\ call.mic_segments[1] = call.mic_segments[2]
    /\ ~Blank(call.mic_segments[1])
    /\ Len(call.speaker_segments) = 1
    /\ ~Blank(call.speaker_segments[1])
    /\ Count(Output, Tagged(call.mic_segments[1], "mic")) = 2
    /\ Len(Output) = 3

\* With suppression on, a mic segment is missing and the secondary segments
\* with text are all there.
C39_WitnessSuppressed ==
    /\ Called
    /\ ~call.group_consecutive
    /\ call.suppress_mic_bleed_duplicates
    /\ Len(call.speaker_segments) = 2
    /\ \A k \in 1..2 : ~Blank(call.speaker_segments[k])
    /\ Len(call.mic_segments) = 1
    /\ ~Blank(call.mic_segments[1])
    /\ Len(Output) = 2

\* -------------------------------------------------------- notes properties

\* C33: the i-th note added has index i, from 1 on and without gap or
\* repeat, and the notes come back in the order they were added; after a
\* clear the collection is empty and the numbering starts at 1 again.
C33_NoteOrdinals ==
    /\ Len(notes) = Len(added)
    /\ \A i \in 1..Len(notes) :
           /\ notes[i].index = i
           /\ notes[i].text = added[i]

\* The collection was cleared and two notes with different texts were added
\* after that.
C33_Witness ==
    /\ cleared
    /\ Len(notes) = 2
    /\ notes[1].index = 1 /\ notes[1].text = "b"
    /\ notes[2].index = 2 /\ notes[2].text = "a"

\* ------------------------------------------- streams and routing, revisited

\* C34: when start has failed because a stream could not be opened, no
\* input stream of the session is open as start returns (so that no
\* callback appends a block after the failure was reported).
C34_FailedStartLeavesNoStream ==
    (lastOp = "start" /\ result = "StreamError") =>
        /\ mic_stream # "open"
        /\ speaker_stream # "open"

\* The session has switched the output routing and has not restored it.
SwitchInEffect == switched_ever /\ output_device = speaker_device_name

\* C36: the session holds a remembered original output routing exactly when
\* it has switched the output routing and not yet restored it (on a
\* platform that has refused no restore).
C36_OriginalOnlyWhileSwitched ==
    ~restore_refused => (original_output # None <=> SwitchInEffect)

\* ------------------------------------------------- first-block timestamps

\* A step of the callback of one source (of its thread).
CallbackStep(src) == pc'[src] # pc[src]

\* A timestamp that is set stays, and only a step of the source's own
\* callback changes it.
WrittenOnceByOwner ==
    /\ mic_first_adc_time # None => mic_first_adc_time' = mic_first_adc_time
    /\ speaker_first_adc_time # None =>
           speaker_first_adc_time' = speaker_first_adc_time
    /\ mic_first_adc_time' # mic_first_adc_time => CallbackStep("mic")
    /\ speaker_first_adc_time' # speaker_first_adc_time =>
           CallbackStep("speaker")
    /\ CallbackStep("mic") => speaker_first_adc_time' = speaker_first_adc_time
    /\ CallbackStep("speaker") => mic_first_adc_time' = mic_first_adc_time

\* C38: the first-block timestamp of each source is that of the first block
\* of the source that came with an ADC time; once set it never changes,
\* whatever the interleaving of the callbacks with each other, with mic
\* switches and with disabling and enabling the secondary source; and it is
\* written by the source's own callback only.
C38_WriteOnce ==
    /\ [](/\ mic_first_adc_time = FirstTimedBlock("mic")
          /\ speaker_first_adc_time = FirstTimedBlock("speaker"))
    /\ [][WrittenOnceByOwner]_vars

\* The mic was switched between its two blocks, which both came with an ADC
\* time: the timestamp is that of the first one.
C38_Witness ==
    /\ Len(mic_log) = 2
    /\ mic_log[1][1].dev # mic_log[2][1].dev
    /\ Received("mic")[1].adc_time # None
    /\ Received("mic")[2].adc_time # None
    /\ Received("mic")[1].adc_time # Received("mic")[2].adc_time
    /\ mic_first_adc_time = Received("mic")[1].adc_time

\* The secondary source was disabled and enabled again after a block that
\* came without an ADC time: the timestamp is that of its second block.
C38_WitnessReenabled ==
    /\ Len(speaker_log) = 2
    /\ ~requested
    /\ Received("speaker")[1].adc_time = None
    /\ speaker_first_adc_time # None
    /\ speaker_first_adc_time = Received("speaker")[2].adc_time

\* ------------------------------------------- the screen's speaker actions

\* The step is a run of action_remove_speaker_capture.
RemoveStep ==
    /\ screen'.action = "action_remove_speaker_capture"
    /\ <<screen'.action, screen'.called, screen'.speaker>>
           # <<screen.action, screen.called, screen.speaker>>

RemovedThroughSession ==
    RemoveStep =>
        IF screen.speaker
        THEN /\ screen'.called = <<"disable_speaker_capture">>
             /\ lastOp' = "disable_speaker_capture"
             /\ ~screen'.speaker
        ELSE /\ screen'.called = <<>>
             /\ ~screen'.speaker
             /\ UNCHANGED <<session, platform, history>>

\* C32: with the screen's speaker flag on, action_remove_speaker_capture
\* calls the session's disable_speaker_capture exactly once and sets the
\* flag to off; with the flag off it does not call the session at all.
C32_RemoveThroughSession == [][RemovedThroughSession]_vars

\* The flag was on: the session was told to disable, once.
C32_Witness ==
    /\ screen.action = "action_remove_speaker_capture"
    /\ screen.called = <<"disable_speaker_capture">>
    /\ lastOp = "disable_speaker_capture"
    /\ ~screen.speaker /\ ~speaker

\* The flag was off, on a session that never had the speaker source.
C32_WitnessAlreadyOff ==
    /\ screen.action = "action_remove_speaker_capture"
    /\ screen.called = <<>>
    /\ phase = "recording"
    /\ ~speaker_enabled_ever

\* C35: between a successful start and the stop, whatever enable, disable
\* and mic switch calls were made and whether they failed, the session's
\* speaker flag is true exactly when a speaker stream is open, and the
\* screen's speaker flag equals the session's.
C35_FlagMatchesStream ==
    phase = "recording" =>
        /\ speaker <=> speaker_stream = "open"
        /\ screen.speaker = speaker

\* A session started without the speaker source, whose mic switch failed,
\* with the speaker source enabled at the second attempt or later.
C35_Witness ==
    /\ phase = "recording"
    /\ ~requested /\ speaker /\ speaker_stream = "open"
    /\ mic_stream = "closed"
    /\ Len(screen._speaker_callback) >= 3

\* A failed enable attempt left the source off.
C35_WitnessFailedEnable ==
    /\ phase = "recording"
    /\ lastOp = "enable_speaker_capture"
    /\ result \in {"SwitchFailed", "StreamError"}
    /\ ~speaker /\ ~screen.speaker

\* The appends of a callback's effects
AppendsIn(effects) ==
    Cardinality({i \in DOMAIN effects : effects[i] = "append"})

\* The callback appends the block once, before anything else it does.
AppendsOnceFirst(effects) ==
    /\ effects # <<>>
    /\ effects[1] = "append"
    /\ AppendsIn(effects) = 1

\* A block that arrives is appended to the buffer of its source, once, first.
BlockAppendedOnce ==
    /\ Len(mic_log') > Len(mic_log) =>
           /\ mic_chunks' = Append(mic_chunks, mic_log'[Len(mic_log')])
           /\ AppendsOnceFirst(screen'.effects)
    /\ Len(speaker_log') > Len(speaker_log) =>
           /\ speaker_chunks' =
                  Append(speaker_chunks, speaker_log'[Len(speaker_log')])
           /\ AppendsOnceFirst(screen'.effects)

\* C37: in the recording screen, where every enable attempt wraps the
\* speaker callback again, every block that arrives is appended to the
\* buffer of its source exactly once, and the append comes before any update
\* of the level meter for that block.
C37_OneAppendPerBlock == [][BlockAppendedOnce]_vars

\* A speaker block went through a callback wrapped three times or more.
C37_Witness ==
    /\ lastOp = "_speaker_callback"
    /\ Len(screen.effects) >= 4
    /\ speaker_chunks = speaker_log
    /\ speaker_chunks # <<>>

====
